---- MODULE Spec2Model ----
(***************************************************************************)
(* Wallet state synchronisation of the invoice application: the React      *)
(* WalletProvider context (src/contexts/BlockchainContext.tsx, second      *)
(* half), the BlockchainService contract binding (services/blockchain/     *)
(* qrcode.ts, second half), the network registry (networks.ts) and the     *)
(* wallet detection service, against an injected wallet provider           *)
(* (window.ethereum) that changes accounts and chain asynchronously.       *)
(*                                                                         *)
(* Every await of the source is a suspension point: an asynchronous        *)
(* operation is a record in ops whose pc names the await it is suspended   *)
(* at, and one action of the model is the synchronous run of code between  *)
(* two awaits.  A function created during a render closes over the         *)
(* walletState of that render: the captured address travels with the       *)
(* operation (field cap) and with the handlers it installs.                *)
(***************************************************************************)
EXTENDS Integers, FiniteSets, Sequences, TLC

VARIABLES
    ws,          \* WalletProvider's walletState (useState)
    ops,         \* asynchronous operations suspended at an await, timers
    listeners,   \* window.ethereum's registered handlers, per event
    bs,          \* the BlockchainService singleton's fields
    hasProvider, \* window.ethereum is defined
    extAccount,  \* first account the wallet exposes to the page, or NoAccount
    extChain,    \* chain the wallet is on
    notified,    \* notifications the provider has emitted so far
    gw,          \* one call of a contract gateway: position, chain answers, trace
    qr,          \* one call of the amount codec or of a payment URI builder
    list,        \* the invoice views: one run of a handler that shows a payment QR
    form,        \* BlockchainInvoiceForm: formData, and formData as last rendered
    w3           \* BlockchainProvider's state and the fields of Web3Service

wallet == <<ws, ops, listeners, bs, hasProvider, extAccount, extChain, notified>>

vars == <<ws, ops, listeners, bs, hasProvider, extAccount, extChain, notified, gw, qr, list, form, w3>>

NULL == "null"
\* chainId: null
NoChain == 0

\* ------------------------------------------------------------------ bounds
\* Operations that may be suspended at the same time.
MaxOps == 2
\* Notifications (accountsChanged, chainChanged) the provider emits in a run.
MaxNotifications == 1

\* ------------------------------------------------------- network registry
SEPOLIA == 11155111
MAINNET == 1
POLYGON == 137

NETWORKS ==
    [ sepolia  |-> [chainId |-> SEPOLIA, name |-> "Sepolia Testnet",
                    pyusdAddress |-> "0xCaC5", supported |-> TRUE],
      ethereum |-> [chainId |-> MAINNET, name |-> "Ethereum Mainnet",
                    pyusdAddress |-> "0x6c3e", supported |-> FALSE],
      polygon  |-> [chainId |-> POLYGON, name |-> "Polygon Mainnet",
                    pyusdAddress |-> NULL, supported |-> FALSE] ]

NetworkNames == DOMAIN NETWORKS

\* CONTRACT_ADDRESSES has no entry for polygon: the lookup yields undefined.
CONTRACT_ADDRESSES ==
    [ sepolia  |-> [invoiceManager |-> "0x66bC", pyusd |-> "0xCaC5"],
      ethereum |-> [invoiceManager |-> NULL,     pyusd |-> "0x6c3e"] ]

\* A wallet state's network field holds a descriptor of NETWORKS, written here
\* as its key; NULL is the undefined a failed find returns.
getNetworkByChainId(chainId) ==
    IF \E k \in NetworkNames : NETWORKS[k].chainId = chainId
    THEN CHOOSE k \in NetworkNames : NETWORKS[k].chainId = chainId
    ELSE NULL

getDefaultNetwork == "sepolia"

\* `network || getDefaultNetwork()`
NetworkOrDefault(chainId) ==
    IF getNetworkByChainId(chainId) = NULL
    THEN getDefaultNetwork
    ELSE getNetworkByChainId(chainId)

\* ------------------------------------------------------------ environment
Accounts == {"0xA1", "0xA2"}
NoAccount == "none"

\* A chain id the registry does not know (Goerli).
UnknownChains == {5}
ChainIds == {SEPOLIA, MAINNET} \cup UnknownChains

\* Token balances held on Sepolia, as getPYUSDBalance formats them.
PyusdLedger == [a \in Accounts |-> IF a = "0xA1" THEN "150.5" ELSE "20"]

\* Native balances, as switchWallet formats the eth_getBalance answer.
EthLedger(a, chainId) ==
    IF chainId = SEPOLIA THEN (IF a = "0xA1" THEN "1.25" ELSE "0.5") ELSE "0"

\* Answers of eth_requestAccounts: the request is rejected, the provider
\* answers with an empty list, or it answers with the exposed account (the
\* user picks one when none is exposed yet).
RequestOutcomes ==
    {"reject"} \cup
        (IF extAccount = NoAccount THEN {"empty"} \cup Accounts ELSE {extAccount})

AccountAfter(o) == IF o \in Accounts THEN o ELSE extAccount

\* ------------------------------------------------------------ wallet state
InitialWalletState ==
    [isConnected |-> FALSE, address |-> NULL, balance |-> "0", chainId |-> NoChain,
     network |-> NULL, isLoading |-> FALSE, error |-> NULL]

\* The state disconnectWallet writes.
DisconnectedState ==
    [isConnected |-> FALSE, address |-> NULL, balance |-> "0", chainId |-> NoChain,
     network |-> NULL, isLoading |-> FALSE, error |-> NULL]

\* setWalletState(prev => ({ ...prev, isLoading: true, error: null }))
Loading(prev) == [prev EXCEPT !.isLoading = TRUE, !.error = NULL]

\* A catch block that records the error and leaves the loading flag set.
FailedStillLoading(prev, message) == [prev EXCEPT !.error = message]

\* The catch blocks: setWalletState(prev => ({...prev, isLoading: false, error}))
Failed(prev, message) == [prev EXCEPT !.isLoading = FALSE, !.error = message]

\* The state connectWallet writes on success.
ConnectedState(account, balance, chainId) ==
    [isConnected |-> TRUE, address |-> account, balance |-> balance,
     chainId |-> chainId, network |-> NetworkOrDefault(chainId),
     isLoading |-> FALSE, error |-> NULL]

\* ------------------------------------------------------------- operations
Op(kind, pc, cap, acct, chain, bal, arg) ==
    [kind |-> kind, pc |-> pc, cap |-> cap, acct |-> acct, chain |-> chain,
     bal |-> bal, arg |-> arg]

At(kind, pc) == {op \in ops : op.kind = kind /\ op.pc = pc}

CanStart == Cardinality(ops) < MaxOps

\* ---------------------------------------------------------------- handlers
Events == {"accountsChanged", "chainChanged", "connect", "disconnect"}

ContextHandler(cap) == [owner |-> "context", cap |-> cap]
DetectionHandler == [owner |-> "detection", cap |-> NULL]

removeAllListeners(L, events) ==
    [e \in Events |-> IF e \in events THEN {} ELSE L[e]]

\* WalletProvider.setupEventListeners, run in a render whose walletState.address
\* is cap.  The connect and disconnect handlers read nothing of the render.
setupEventListeners(L, cap) ==
    IF ~hasProvider THEN L
    ELSE [e \in Events |->
            CASE e \in {"accountsChanged", "chainChanged"} -> {ContextHandler(cap)}
              [] OTHER -> L[e] \cup {ContextHandler(NULL)}]

\* A removal that forgets the connect and disconnect handlers.
removeAccountAndChainListeners(L) ==
    IF ~hasProvider THEN L
    ELSE removeAllListeners(L, {"accountsChanged", "chainChanged"})

\* WalletProvider.removeEventListeners
removeEventListeners(L) ==
    IF ~hasProvider THEN L ELSE removeAllListeners(L, Events)

\* ------------------------------------------------------ BlockchainService
\* BlockchainService.initializeContracts under currentNetwork = name: the
\* name the contracts are bound for, or NULL when it throws.
initializeContracts(name) ==
    IF name \notin DOMAIN CONTRACT_ADDRESSES THEN NULL
    ELSE IF CONTRACT_ADDRESSES[name].invoiceManager = NULL THEN NULL
    ELSE IF NETWORKS[name].pyusdAddress = NULL THEN NULL
    ELSE name

\* Answers of the eth_requestAccounts that BlockchainService.initialize sends:
\* it throws, or it answers (the accounts are not read).
InitializeOutcomes == {"reject", "ok"}

\* BlockchainService.initialize, resumed with the answer o of eth_requestAccounts
\* on chain chainId: the service's fields afterwards.  A throw leaves the
\* contracts as they were.
initializeResume(b, o, chainId) ==
    IF o = "reject" THEN b
    ELSE IF getNetworkByChainId(chainId) = NULL THEN [b EXCEPT !.signer = TRUE]
    ELSE LET name == getNetworkByChainId(chainId)
             bound == initializeContracts(name)
         IN  [b EXCEPT !.signer = TRUE,
                       !.currentNetwork = name,
                       !.contracts = IF bound = NULL THEN @ ELSE bound]

\* The boolean BlockchainService.initialize returns.
initializeOk(o, chainId) ==
    /\ o # "reject"
    /\ getNetworkByChainId(chainId) # NULL
    /\ initializeContracts(getNetworkByChainId(chainId)) # NULL

\* BlockchainService.getPYUSDBalance(address), issued while the wallet is on
\* chainId: '0' without a token contract and when the call fails because the
\* contract is bound for another chain.
getPYUSDBalance(b, address, chainId) ==
    IF b.contracts = NULL THEN "0"
    ELSE IF NETWORKS[b.contracts].chainId # chainId THEN "0"
    ELSE PyusdLedger[address]

\* ------------------------------------------------------- contract gateway
\* InvoiceStatus
UNPAID == 0
PAID == 1
FAILED == 2
InvoiceStatuses == {UNPAID, PAID, FAILED}

\* Largest token amount (base units) an invoice, a balance or an allowance
\* takes.
MaxAmount == 2
Amounts == 0..MaxAmount

ZeroAddress == "0x00"

\* What the contract's getInvoice gives for an id it has no invoice for: the
\* call reverts, or it returns the storage slot's zero struct.
NoInvoice == [exists |-> FALSE, status |-> UNPAID, creator |-> ZeroAddress, amount |-> 0]

\* The invoices the contract may hold under the id asked for.
ChainInvoices ==
    {NoInvoice} \cup
    [exists : {TRUE}, status : InvoiceStatuses, creator : Accounts, amount : Amounts \ {0}]

Gateways == {"BlockchainService", "Web3Service"}

\* No gateway call has been made.
GatewayIdle ==
    [impl |-> "none", op |-> "none", pc |-> "idle", bound |-> FALSE, caller |-> NULL,
     onChain |-> NoInvoice, reverts |-> FALSE, balance |-> 0, allowance |-> 0,
     ipfs |-> "none", dev |-> FALSE, stored |-> FALSE, count |-> 0, found |-> FALSE, invoice |-> NoInvoice, trace |-> <<>>,
     result |-> NULL]

\* ------------------------------------------------ amounts as IEEE-754 doubles
\* Doubles are kept as 53 mantissa bits (most significant first, leading 1)
\* and the binary exponent of the last bit: value = mant * 2^exp.  Zero has
\* the empty mantissa.
MantissaBits == 53

\* 10^6 = 15625 * 2^6: the odd part and the power of two of the factor.
MicroOdd == 15625
MicroShift == 6

\* How many binary digits a natural below 2^31 has (0 for 0).
BitLength(k) == Cardinality({l \in 0..30 : 2^l <= k})

\* The last `width` binary digits of a natural, most significant first.
Bits(k, width) == [i \in 1..width |-> (k \div 2^(width - i)) % 2]

\* The binary digits of a natural, most significant first (<<>> for 0).
Binary(k) == Bits(k, BitLength(k))

\* The natural that bits from..to of a sequence spell.
RECURSIVE Natural(_, _, _)
Natural(b, from, to) == IF to < from THEN 0 ELSE 2 * Natural(b, from, to - 1) + b[to]

\* 2^k modulo den, by squaring.
RECURSIVE PowMod(_, _)
PowMod(k, den) ==
    IF k = 0 THEN 1 % den
    ELSE (PowMod(k \div 2, den) * PowMod(k \div 2, den) * (IF k % 2 = 1 THEN 2 ELSE 1)) % den

\* What is left of r/den (r < den) below its first p binary digits, times den.
Remainder(r, den, p) == (r * PowMod(p, den)) % den

\* Binary digits from+1..from+count of r/den (r < den) and the remainder left.
Digits(r, den, from, count) ==
    [bits |-> [i \in 1..count |-> (2 * Remainder(r, den, from + i - 1)) \div den],
     rem  |-> Remainder(r, den, from + count)]

\* How many zero digits r/den (0 < r < den < 2^15) has before its first one.
LeadingZeros(r, den) == Cardinality({i \in 1..15 : r * 2^i < den})

\* A bit sequence without its leading zeros.
Trim(b) ==
    LET ones == {i \in 1..Len(b) : b[i] = 1}
    IN  IF ones = {} THEN <<>>
        ELSE SubSeq(b, CHOOSE i \in ones : \A j \in ones : i <= j, Len(b))

\* A bit sequence plus one: the last zero becomes one, the ones after it zero.
Increment(b) ==
    LET zeros == {i \in 1..Len(b) : b[i] = 0}
    IN  IF zeros = {} THEN <<1>> \o [i \in 1..Len(b) |-> 0]
        ELSE LET k == CHOOSE i \in zeros : \A j \in zeros : j <= i
             IN  [i \in 1..Len(b) |-> IF i < k THEN b[i] ELSE IF i = k THEN 1 ELSE 0]

\* A bit sequence times a natural below 2^15 plus a carry, worked in pieces
\* of 16 bits from the last bit up; piece j is bits Len-16j-15 .. Len-16j.
RECURSIVE TimesFrom(_, _, _, _)
TimesFrom(b, j, c, carry) ==
    IF 16 * j >= Len(b) THEN Binary(carry)
    ELSE LET hi == Len(b) - 16 * j
             lo == IF hi > 16 THEN hi - 15 ELSE 1
             t  == Natural(b, lo, hi) * c + carry
         IN  TimesFrom(b, j + 1, c, t \div 2^16) \o Bits(t % 2^16, 16)

TimesSmall(b, c) == Trim(TimesFrom(b, 0, c, 0))

\* Round to nearest, ties to even: up when the first dropped bit is set and
\* either more is dropped below it or the kept mantissa is odd.
NearestEven(half, more, odd) == half /\ (more \/ odd)

\* The double nearest to bits * 2^exp (+ a positive rest below the last bit
\* when sticky), for a bit sequence with a leading 1.
RoundToDouble(neg, bits, exp, sticky) ==
    IF Len(bits) <= MantissaBits
    THEN [kind |-> "finite", neg |-> neg, mant |-> bits, exp |-> exp]
    ELSE LET keep == SubSeq(bits, 1, MantissaBits)
             drop == SubSeq(bits, MantissaBits + 1, Len(bits))
             more == sticky \/ \E i \in 2..Len(drop) : drop[i] = 1
             up   == NearestEven(drop[1] = 1, more, keep[MantissaBits] = 1)
             inc  == IF up THEN Increment(keep) ELSE keep
             e    == exp + Len(drop)
         IN  IF Len(inc) > MantissaBits
             THEN [kind |-> "finite", neg |-> neg,
                   mant |-> SubSeq(inc, 1, MantissaBits), exp |-> e + 1]
             ELSE [kind |-> "finite", neg |-> neg, mant |-> inc, exp |-> e]

NaN == [kind |-> "NaN", neg |-> FALSE, mant |-> <<>>, exp |-> 0]
Zero(neg) == [kind |-> "finite", neg |-> neg, mant |-> <<>>, exp |-> 0]

\* The double a decimal literal of micro/10^6 reads as: the quotient
\* micro / (15625 * 2^6) developed to one bit more than the mantissa holds
\* and rounded.
DecimalToDouble(neg, micro) ==
    LET whole == Binary(micro \div MicroOdd)
        r     == micro % MicroOdd
    IN  IF micro = 0 THEN Zero(neg)
        ELSE IF whole # <<>>
        THEN LET n == MantissaBits + 1 - Len(whole)
                 d == Digits(r, MicroOdd, 0, n)
             IN  RoundToDouble(neg, whole \o d.bits, 0 - n - MicroShift, d.rem # 0)
        ELSE LET z == LeadingZeros(r, MicroOdd)
                 d == Digits(r, MicroOdd, z, MantissaBits + 1)
             IN  RoundToDouble(neg, d.bits, 0 - z - (MantissaBits + 1) - MicroShift,
                               d.rem # 0)

\* x * 1e6 (and x * Math.pow(10, 6)): the exact product, rounded.
TimesMillion(x) ==
    IF x.kind = "NaN" \/ x.mant = <<>> THEN x
    ELSE RoundToDouble(x.neg, TimesSmall(x.mant, MicroOdd),
                       x.exp + MicroShift, FALSE)

\* Math.floor(x).toString() for a double of at most 31 integer bits, as the
\* integer the digits spell.
floor(x) ==
    LET n == Len(x.mant) + x.exp
        whole == IF x.mant = <<>> \/ n <= 0 THEN 0
                 ELSE IF x.exp >= 0 THEN Natural(x.mant, 1, Len(x.mant)) * 2^x.exp
                 ELSE Natural(x.mant, 1, n)
        exact == x.mant = <<>> \/ x.exp >= 0
                 \/ (n > 0 /\ \A i \in (n + 1)..Len(x.mant) : x.mant[i] = 0)
    IN  IF x.neg THEN IF exact THEN 0 - whole ELSE 0 - whole - 1 ELSE whole

\* formatTokenAmount(amount, 6) of the number literal micro/10^6.
formatTokenAmount(micro) == floor(TimesMillion(DecimalToDouble(FALSE, micro)))

\* ------------------------------------------------------ payment URI inputs
\* Largest amount, in millionths of a token, of the full range of amounts.
MaxMicro == 260

\* Amounts beyond the range: 1, 2.01 and 100.50 tokens.
SampleMicros == {1000000, 2010000, 100500000}
Micros == (0..MaxMicro) \cup SampleMicros

\* An amount string by its shape: absent or empty ("missing"), text with no
\* number at its start ("words"), a decimal of up to six fractional digits
\* ("decimal": value/10^6, with a minus sign when neg), such a decimal
\* followed by other characters ("decimalThenWords"), or the digits of an
\* integer ("integer": value).
AmountText(text, neg, value) == [text |-> text, neg |-> neg, value |-> value]
NoAmount == AmountText("missing", FALSE, 0)
AmountTexts ==
    {NoAmount, AmountText("words", FALSE, 0)}
    \cup {AmountText(t, neg, n) : t \in {"decimal", "decimalThenWords"},
                                  neg \in BOOLEAN, n \in Micros}

\* An address string by its shape: how many characters follow the 0x, whether
\* all are hex digits, and whether mixed-case letters carry a checksum.
AddressText(digits, hex, checksum) ==
    [digits |-> digits, hex |-> hex, checksum |-> checksum]
NoAddress == AddressText(0, TRUE, "none")
AddressTexts ==
    { NoAddress,
      AddressText(40, TRUE, "none"), AddressText(40, TRUE, "good"),
      AddressText(40, TRUE, "bad"), AddressText(39, TRUE, "none"),
      AddressText(40, FALSE, "none") }

\* ethers.utils.isAddress: 40 hex digits, and a right checksum if any.
isAddress(a) == a.digits = 40 /\ a.hex /\ a.checksum # "bad"

\* parseFloat: the double of the decimal a string starts with, NaN if none.
parseFloat(amount) ==
    IF amount.text \in {"decimal", "decimalThenWords"}
    THEN DecimalToDouble(amount.neg, amount.value)
    ELSE NaN

\* The doubles of the input magnitudes and their products with 1e6, each
\* computed once. Reading a decimal and multiplying by a positive number
\* both round to nearest, ties to even, so the sign passes through them.
Doubles == [n \in Micros |-> DecimalToDouble(FALSE, n)]
Products == [n \in Micros |-> TimesMillion(Doubles[n])]

\* Whether the tables hold the number an amount string starts with.
Tabulated(amount) ==
    amount.text \in {"decimal", "decimalThenWords"} /\ amount.value \in Micros

\* parseFloat(amount), read from the table where it holds the number.
Parsed(amount) ==
    IF Tabulated(amount) THEN [Doubles[amount.value] EXCEPT !.neg = amount.neg]
    ELSE parseFloat(amount)

\* parseFloat(amount) * 1e6 (and * Math.pow(10, 6)), likewise.
Scaled(amount) ==
    IF Tabulated(amount) THEN [Products[amount.value] EXCEPT !.neg = amount.neg]
    ELSE TimesMillion(parseFloat(amount))

isNaN(x) == x.kind = "NaN"

\* x <= 0 for a double (false for NaN).
NotPositive(x) == x.kind = "finite" /\ (x.neg \/ x.mant = <<>>)

\* An EIP-681 URI by its parts, in the order they are written:
\* scheme target @ chainId path ?address= address &uint256= uint256, then
\* each further parameter after an &.
TransferUri(to, amount, extra) ==
    [scheme |-> "ethereum:", target |-> NETWORKS.sepolia.pyusdAddress,
     chainId |-> NETWORKS.sepolia.chainId, path |-> "/transfer",
     address |-> to, uint256 |-> amount, extra |-> extra]

NoUri ==
    [scheme |-> "", target |-> "", chainId |-> NoChain, path |-> "",
     address |-> NoAddress, uint256 |-> NoAmount, extra |-> <<>>]

\* The digits of an integer as a string: NaN, or a sign and the binary
\* digits of the magnitude (<<>> for 0).
IntegerText(nan, neg, bits) == [nan |-> nan, neg |-> neg, bits |-> bits]
NoInteger == IntegerText(FALSE, FALSE, <<>>)

\* A string of hexadecimal digits (each 0..15), after a minus sign when neg;
\* the three letters NaN when nan.
HexText(nan, neg, digits) == [nan |-> nan, neg |-> neg, digits |-> digits]

\* The call data of a token transfer by its parts, in the order they are
\* written: 0x selector, addressPad zeros, the address without its 0x,
\* amountPad zeros, the amount.
Calldata(selector, addressPad, address, amountPad, amount) ==
    [selector |-> selector, addressPad |-> addressPad, address |-> address,
     amountPad |-> amountPad, amount |-> amount]
NoCalldata == Calldata("", 0, NoAddress, 0, HexText(FALSE, FALSE, <<>>))

\* What the builders other than the token-transfer one put in the QR image:
\* the MetaMask link ("mobile": to, data), the JSON payload ("json":
\* recipient, amount, value) or the generic URI ("generic": to, chainId and,
\* when hasValue, value=amount).
Link(kind, to, chainId, hasValue, amount, value, data) ==
    [kind |-> kind, to |-> to, chainId |-> chainId, hasValue |-> hasValue,
     amount |-> amount, value |-> value, data |-> data]
NoLink ==
    [kind |-> "none", to |-> NoAddress, chainId |-> NoChain, hasValue |-> FALSE,
     amount |-> NoAmount,
     value |-> [kind |-> "finite", neg |-> FALSE, mant |-> <<>>, exp |-> 0],
     data |-> NoCalldata]

\* No codec or builder call has been made.
CodecIdle ==
    [pc |-> "idle", fn |-> "none", amount |-> NoAmount, to |-> NoAddress,
     wei |-> NoInteger, units |-> 0, success |-> FALSE, uri |-> NoUri,
     link |-> NoLink, image |-> FALSE, error |-> "none"]

\* The link BlockchainInvoiceCard puts in its QR image, by its query
\* parameters: contract, chain, to and amount (the invoice's amount string,
\* as the integer it spells).
PaymentLink(contract, chain, to, amount) ==
    [contract |-> contract, chain |-> chain, to |-> to, amount |-> amount]
NoPaymentLink == PaymentLink(NULL, NoChain, NoAddress, 0)

\* A toast: its message and, after the colon of a failure, the error text.
Toast(message, detail) == [message |-> message, detail |-> detail]
NoToast == Toast("", "")

\* No handler of the invoice views runs: by is the handler, units and creator
\* the invoice's amount and creator, call the builder call awaited, tried
\* and errors the builders called so far and the errors they returned,
\* qrResult the handler's variable of that name; modal, toast, alert and
\* paymentLink are what the view shows.
ListIdle ==
    [pc |-> "idle", by |-> "none", units |-> 0, creator |-> NoAddress,
     call |-> CodecIdle, tried |-> <<>>, errors |-> <<>>, qrResult |-> CodecIdle,
     modal |-> FALSE, toast |-> NoToast, alert |-> "", paymentLink |-> NoPaymentLink]

\* A line item; a new one has quantity 1, rate 0 and amount 0.
InvoiceItem(description, quantity, rate, amount) ==
    [description |-> description, quantity |-> quantity, rate |-> rate,
     amount |-> amount]
NewItem == InvoiceItem("", 1, 0, 0)

\* useState's initial formData.  companyName stands for the seven text
\* fields, which no handler reads.
InitialFormData == [amount |-> 0, companyName |-> "", items |-> <<NewItem>>]

\* The form as mounted: data is React's state, seen the formData of the last
\* render (what the handlers' closures read), pending the state updates since.
FormInitial ==
    [data |-> InitialFormData, seen |-> InitialFormData, pending |-> 0,
     isSubmitting |-> FALSE, alert |-> ""]

\* Web3Service's WalletState as BlockchainProvider holds it; NoWalletState is
\* the null it starts with.
Web3WalletState(address, chainId, balance, pyusdBalance) ==
    [isConnected |-> TRUE, address |-> address, chainId |-> chainId,
     balance |-> balance, pyusdBalance |-> pyusdBalance,
     isCorrectNetwork |-> chainId = NETWORKS.sepolia.chainId]
NoWalletState ==
    [isConnected |-> FALSE, address |-> NULL, chainId |-> NoChain, balance |-> "0",
     pyusdBalance |-> "0", isCorrectNetwork |-> FALSE]

\* BlockchainProvider before it is mounted.  provider, signer and
\* pyusdContract say which fields of Web3Service are set, account is the
\* signer's, listening says that connectWallet's handlers are registered;
\* walletState, isLoading and error are the component's state, pc its
\* position; disconnected records that disconnectWallet has run since the
\* mount.
Unmounted ==
    [pc |-> "unmounted", provider |-> FALSE, signer |-> FALSE, pyusdContract |-> FALSE,
     account |-> NoAccount, listening |-> FALSE, walletState |-> NoWalletState,
     isLoading |-> FALSE, error |-> NULL, disconnected |-> FALSE]

\* -------------------------------------------------------------------- Init
Init ==
    /\ ws = InitialWalletState
    /\ notified = 0
    /\ hasProvider \in BOOLEAN
    /\ extAccount \in (IF hasProvider THEN Accounts \cup {NoAccount} ELSE {NoAccount})
    /\ extChain \in (IF hasProvider THEN ChainIds ELSE {SEPOLIA})
    /\ listeners = [e \in Events |-> {}]
    /\ bs = [signer |-> FALSE, contracts |-> NULL, currentNetwork |-> "sepolia"]
    /\ ops = IF hasProvider
             THEN {Op("mount", "accounts", NULL, NULL, NoChain, NULL, NULL)}
             ELSE {}
    /\ gw = GatewayIdle
    /\ qr = CodecIdle
    /\ list = ListIdle
    /\ form = FormInitial
    /\ w3 = Unmounted

\* ----------------------------------------------------------- connectWallet
\* connectWallet's catch block.
connectFails(op, message) ==
    /\ ws' = Failed(ws, message)
    /\ ops' = ops \ {op}

\* connectWallet up to its first await, in a render whose address is cap.
connectWalletEnter(O, cap) ==
    IF ~hasProvider
    THEN /\ ws' = Failed(Loading(ws),
                    "MetaMask is not installed. Please install MetaMask to continue.")
         /\ ops' = O
    ELSE /\ ws' = Loading(ws)
         /\ ops' = O \cup {Op("connect", "requestAccounts", cap, NULL, NoChain, NULL, NULL)}

\* The user invokes connectWallet.
ConnectWallet ==
    /\ CanStart
    /\ connectWalletEnter(ops, ws.address)
    /\ UNCHANGED <<listeners, bs, hasProvider, extAccount, extChain, notified, gw, qr, list, form, w3>>

\* The mount effect checkExistingConnection resumes after eth_accounts and
\* auto-connects, with the functions of the first render.
MountCheck ==
    \E op \in At("mount", "accounts") :
        /\ IF extAccount # NoAccount
           THEN connectWalletEnter(ops \ {op}, NULL)
           ELSE /\ ops' = ops \ {op}
                /\ UNCHANGED ws
        /\ UNCHANGED <<listeners, bs, hasProvider, extAccount, extChain, notified, gw, qr, list, form, w3>>

\* eth_requestAccounts answers o.
ConnectAccountsWith(op, o) ==
    /\ op \in At("connect", "requestAccounts")
    /\ o \in RequestOutcomes
    /\ extAccount' = AccountAfter(o)
    /\ CASE o = "reject" -> connectFails(op, "User rejected the request.")
         [] o = "empty" -> connectFails(op, "No accounts found. Please unlock MetaMask.")
         [] OTHER ->
              /\ ops' = (ops \ {op}) \cup {[op EXCEPT !.pc = "chainId", !.acct = o]}
              /\ UNCHANGED ws
    /\ UNCHANGED <<listeners, bs, hasProvider, extChain, notified, gw, qr, list, form, w3>>

ConnectAccounts == \E op \in ops : \E o \in RequestOutcomes : ConnectAccountsWith(op, o)

\* eth_chainId answers; blockchainService.initialize() is entered.
ConnectChainId ==
    \E op \in At("connect", "chainId") :
        /\ ops' = (ops \ {op}) \cup {[op EXCEPT !.pc = "initialize", !.chain = extChain]}
        /\ UNCHANGED <<ws, listeners, bs, hasProvider, extAccount, extChain, notified, gw, qr, list, form, w3>>

\* blockchainService.initialize() returns, its request answered o; on success
\* the balance is requested.
ConnectInitializeWith(op, o) ==
    /\ op \in At("connect", "initialize")
    /\ o \in InitializeOutcomes
    /\ bs' = initializeResume(bs, o, extChain)
    /\ IF initializeOk(o, extChain)
       THEN /\ ops' = (ops \ {op}) \cup
                 {[op EXCEPT !.pc = "balance",
                             !.bal = getPYUSDBalance(bs', op.acct, extChain)]}
            /\ UNCHANGED ws
       ELSE connectFails(op, "Failed to initialize blockchain service")
    /\ UNCHANGED <<listeners, hasProvider, extAccount, extChain, notified, gw, qr, list, form, w3>>

ConnectInitialize ==
    \E op \in ops : \E o \in InitializeOutcomes : ConnectInitializeWith(op, o)

\* getPYUSDBalance answers: the connected state is written and the handlers
\* are installed.
ConnectBalance ==
    \E op \in At("connect", "balance") :
        /\ ws' = ConnectedState(op.acct, op.bal, op.chain)
        /\ listeners' = setupEventListeners(listeners, op.cap)
        /\ ops' = ops \ {op}
        /\ UNCHANGED <<bs, hasProvider, extAccount, extChain, notified, gw, qr, list, form, w3>>

\* -------------------------------------------------------- disconnectWallet
disconnectWallet ==
    /\ ws' = DisconnectedState
    /\ listeners' = removeEventListeners(listeners)

\* The user invokes disconnectWallet.
DisconnectWallet ==
    /\ disconnectWallet
    /\ UNCHANGED <<ops, bs, hasProvider, extAccount, extChain, notified, gw, qr, list, form, w3>>

\* ---------------------------------------------------------- refreshBalance
\* refreshBalance in a render whose walletState.address is cap: nothing without
\* an address, else the balance of cap is requested.  The request is answered
\* by the chain the wallet is on; field chain remembers the chain id the
\* wallet state showed when it was issued.
refreshBalanceEnter(O, b, cap) ==
    IF cap = NULL THEN O
    ELSE O \cup {Op("refreshBalance", "balance", cap, NULL, ws.chainId,
                    getPYUSDBalance(b, cap, extChain), NULL)}

\* setWalletState(prev => ({ ...prev, balance }))
BalanceUpdate(prev, balance) == [prev EXCEPT !.balance = balance]

\* The user invokes refreshBalance.
RefreshBalance ==
    /\ CanStart
    /\ ws.address # NULL
    /\ ops' = refreshBalanceEnter(ops, bs, ws.address)
    /\ UNCHANGED <<ws, listeners, bs, hasProvider, extAccount, extChain, notified, gw, qr, list, form, w3>>

\* A balance request of refreshBalance answers.
BalanceFetched(op) ==
    /\ op \in At("refreshBalance", "balance")
    /\ ws' = BalanceUpdate(ws, op.bal)
    /\ ops' = ops \ {op}
    /\ UNCHANGED <<listeners, bs, hasProvider, extAccount, extChain, notified, gw, qr, list, form, w3>>

RefreshBalanceDone == \E op \in ops : BalanceFetched(op)

\* ------------------------------------------------ provider notifications
Notify == notified < MaxNotifications /\ notified' = notified + 1

ContextHandlersOn(event) == {h \in listeners[event] : h.owner = "context"}

\* setWalletState(prev => ({ ...prev, address: accounts[0], balance: '0' }))
AccountSwitched(prev, account) == [prev EXCEPT !.address = account, !.balance = "0"]

\* A handler that takes accounts[0] without looking at the list's length.
accountsChangedUnchecked(cap, account) ==
    /\ ws' = [ws EXCEPT !.address = IF account = NoAccount THEN NULL ELSE account,
                        !.balance = "0"]
    /\ UNCHANGED <<ops, listeners>>

\* The accountsChanged handler of the context, created in a render whose
\* address is cap, given the wallet's first account.
accountsChangedHandler(cap, account) ==
    IF account = NoAccount
    THEN /\ disconnectWallet
         /\ UNCHANGED ops
    ELSE IF account # cap
    THEN /\ CanStart
         /\ ws' = AccountSwitched(ws, account)
         /\ ops' = ops \cup {Op("timer", "timeout", cap, NULL, NoChain, NULL, NULL)}
         /\ UNCHANGED listeners
    ELSE UNCHANGED <<ws, ops, listeners>>

\* The wallet exposes another first account (or none) and notifies.  The
\* detection service's handler only re-dispatches a window event nobody
\* listens to.
AccountsChanged(account) ==
    /\ hasProvider
    /\ account # extAccount
    /\ Notify
    /\ extAccount' = account
    /\ IF ContextHandlersOn("accountsChanged") # {}
       THEN accountsChangedHandler(
                (CHOOSE h \in ContextHandlersOn("accountsChanged") : TRUE).cap, account)
       ELSE UNCHANGED <<ws, ops, listeners>>
    /\ UNCHANGED <<bs, hasProvider, extChain, gw, qr, list, form, w3>>

AccountsChangedEvent == \E account \in Accounts \cup {NoAccount} : AccountsChanged(account)

\* setTimeout(() => refreshBalance(), 100) fires.
TimerFire ==
    \E op \in At("timer", "timeout") :
        /\ ops' = refreshBalanceEnter(ops \ {op}, bs, op.cap)
        /\ UNCHANGED <<ws, listeners, bs, hasProvider, extAccount, extChain, notified, gw, qr, list, form, w3>>

\* An update of the chain id that leaves the network as it was.
ChainSwitchedKeepingNetwork(prev, chainId) == [prev EXCEPT !.chainId = chainId]

\* setWalletState(prev => ({ ...prev, chainId, network: network || default }))
ChainSwitched(prev, chainId) ==
    [prev EXCEPT !.chainId = chainId, !.network = NetworkOrDefault(chainId)]

\* A chainChanged notification reaches the page while operations O are
\* suspended: the context's handler updates the state and enters
\* blockchainService.initialize().
chainChangedDelivered(O, chainId) ==
    IF ContextHandlersOn("chainChanged") # {}
    THEN /\ Cardinality(O) < MaxOps
         /\ ws' = ChainSwitched(ws, chainId)
         /\ ops' = O \cup {Op("reinit", "initialize",
                              (CHOOSE h \in ContextHandlersOn("chainChanged") : TRUE).cap,
                              NULL, NoChain, NULL, NULL)}
    ELSE /\ ws' = ws
         /\ ops' = O

\* The wallet moves to another chain and notifies.
ChainChanged(chainId) ==
    /\ hasProvider
    /\ chainId # extChain
    /\ Notify
    /\ extChain' = chainId
    /\ chainChangedDelivered(ops, chainId)
    /\ UNCHANGED <<listeners, bs, hasProvider, extAccount, gw, qr, list, form, w3>>

ChainChangedEvent == \E chainId \in ChainIds : ChainChanged(chainId)

\* blockchainService.initialize().then(() => refreshBalance()): initialize
\* never rejects, so the balance is refreshed whatever it returned.
ReinitDone ==
    \E op \in At("reinit", "initialize") : \E o \in InitializeOutcomes :
        /\ bs' = initializeResume(bs, o, extChain)
        /\ ops' = refreshBalanceEnter(ops \ {op}, bs', op.cap)
        /\ UNCHANGED <<ws, listeners, hasProvider, extAccount, extChain, notified, gw, qr, list, form, w3>>

\* The provider emits disconnect.
ProviderDisconnect ==
    /\ hasProvider
    /\ ContextHandlersOn("disconnect") # {}
    /\ disconnectWallet
    /\ UNCHANGED <<ops, bs, hasProvider, extAccount, extChain, notified, gw, qr, list, form, w3>>

\* ------------------------------------------------------------ switchNetwork
\* setWalletState(prev => ({ ...prev, isLoading: false }))
NotLoading(prev) == [prev EXCEPT !.isLoading = FALSE]

\* Networks the user can ask for.
SwitchTargets == {k \in NetworkNames : NETWORKS[k].chainId \in ChainIds}

\* The user invokes switchNetwork(name): BlockchainService.switchNetwork
\* returns false at once without a provider, else it asks the wallet to
\* switch.
SwitchNetwork(name) ==
    /\ CanStart
    /\ IF ~hasProvider
       THEN /\ ws' = NotLoading(Loading(ws))
            /\ UNCHANGED ops
       ELSE /\ ws' = Loading(ws)
            /\ ops' = ops \cup
                 {Op("switchNetwork", "walletSwitch", NULL, NULL, NoChain, NULL, name)}
    /\ UNCHANGED <<listeners, bs, hasProvider, extAccount, extChain, notified, gw, qr, list, form, w3>>

SwitchNetworkStart == \E name \in SwitchTargets : SwitchNetwork(name)

\* wallet_switchEthereumChain (or wallet_addEthereumChain after it) is refused:
\* BlockchainService.switchNetwork returns false.
SwitchNetworkRefused ==
    \E op \in At("switchNetwork", "walletSwitch") :
        /\ ws' = NotLoading(ws)
        /\ ops' = ops \ {op}
        /\ UNCHANGED <<listeners, bs, hasProvider, extAccount, extChain, notified, gw, qr, list, form, w3>>

\* The wallet switches to the chain asked for and notifies the page when the
\* chain changes.
SwitchNetworkApproved ==
    \E op \in At("switchNetwork", "walletSwitch") :
        LET chainId == NETWORKS[op.arg].chainId
            O == (ops \ {op}) \cup {[op EXCEPT !.pc = "switched"]}
        IN  /\ extChain' = chainId
            /\ IF chainId # extChain
               THEN Notify /\ chainChangedDelivered(O, chainId)
               ELSE ws' = ws /\ ops' = O /\ UNCHANGED notified
            /\ UNCHANGED <<listeners, bs, hasProvider, extAccount, gw, qr, list, form, w3>>

\* BlockchainService.switchNetwork resumes: currentNetwork is assigned, the
\* contracts are bound when they can be, and on success refreshWalletState asks
\* for eth_accounts.
SwitchNetworkResume ==
    \E op \in At("switchNetwork", "switched") :
        LET bound == initializeContracts(op.arg)
        IN  /\ bs' = [bs EXCEPT !.currentNetwork = op.arg,
                                !.contracts = IF bound = NULL THEN @ ELSE bound]
            /\ IF bound = NULL
               THEN /\ ws' = NotLoading(ws)
                    /\ ops' = ops \ {op}
               ELSE /\ ops' = (ops \ {op}) \cup {[op EXCEPT !.pc = "refreshAccounts"]}
                    /\ UNCHANGED ws
            /\ UNCHANGED <<listeners, hasProvider, extAccount, extChain, notified, gw, qr, list, form, w3>>

\* refreshWalletState: eth_accounts answers.  Without an account it
\* disconnects and switchNetwork finishes.
RefreshAccounts ==
    \E op \in At("switchNetwork", "refreshAccounts") :
        /\ IF extAccount = NoAccount
           THEN /\ ws' = NotLoading(DisconnectedState)
                /\ listeners' = removeEventListeners(listeners)
                /\ ops' = ops \ {op}
           ELSE /\ ops' = (ops \ {op}) \cup
                     {[op EXCEPT !.pc = "refreshChainId", !.acct = extAccount]}
                /\ UNCHANGED <<ws, listeners>>
        /\ UNCHANGED <<bs, hasProvider, extAccount, extChain, notified, gw, qr, list, form, w3>>

\* refreshWalletState: eth_chainId answers and the balance is requested.
RefreshChainId ==
    \E op \in At("switchNetwork", "refreshChainId") :
        /\ ops' = (ops \ {op}) \cup
             {[op EXCEPT !.pc = "refreshBalance", !.chain = extChain,
                         !.bal = getPYUSDBalance(bs, op.acct, extChain)]}
        /\ UNCHANGED <<ws, listeners, bs, hasProvider, extAccount, extChain, notified, gw, qr, list, form, w3>>

\* setWalletState(prev => ({ ...prev, address, chainId, network, balance }))
Refreshed(prev, account, chainId, balance) ==
    [prev EXCEPT !.address = account, !.chainId = chainId,
                 !.network = NetworkOrDefault(chainId), !.balance = balance]

\* refreshWalletState: the balance answers, the state is written and
\* switchNetwork finishes.
RefreshComplete ==
    \E op \in At("switchNetwork", "refreshBalance") :
        /\ ws' = NotLoading(Refreshed(ws, op.acct, op.chain, op.bal))
        /\ ops' = ops \ {op}
        /\ UNCHANGED <<listeners, bs, hasProvider, extAccount, extChain, notified, gw, qr, list, form, w3>>

\* ------------------------------------------------------------- switchWallet
\* Wallets of the detection service's list: MetaMask, installed when the
\* injected provider is there, and WalletConnect, listed as installed and
\* not implemented.
WalletIds == {"metamask", "walletconnect"}

\* WalletDetectionService.setupAccountChangeListener
setupAccountChangeListener(L) ==
    IF ~hasProvider THEN L
    ELSE [e \in Events |->
            IF e \in {"accountsChanged", "chainChanged"} THEN {DetectionHandler}
            ELSE L[e]]

\* BlockchainService.cleanup
cleanup(b) == [b EXCEPT !.signer = FALSE, !.contracts = NULL]

\* The state switchWallet starts the connection from: it disconnects first
\* when the render it runs in is connected.
SwitchWalletBegins(prev) == IF prev.isConnected THEN DisconnectedState ELSE Loading(prev)

\* The user invokes switchWallet(walletId) and waits for the detection
\* service's connectWallet.
SwitchWallet(walletId) ==
    /\ CanStart
    /\ ws' = SwitchWalletBegins(ws)
    /\ listeners' = IF ws.isConnected THEN removeEventListeners(listeners) ELSE listeners
    /\ ops' = ops \cup
         {Op("switchWallet", "connectWallet", NULL, NULL, NoChain, NULL, walletId)}
    /\ UNCHANGED <<bs, hasProvider, extAccount, extChain, notified, gw, qr, list, form, w3>>

SwitchWalletStart == \E walletId \in WalletIds : SwitchWallet(walletId)

\* The detection service's connectWallet reports failure for a wallet that is
\* not installed or not implemented, and switchWallet returns false.
SwitchWalletUnavailable ==
    \E op \in At("switchWallet", "connectWallet") :
        /\ op.arg # "metamask" \/ ~hasProvider
        /\ ops' = ops \ {op}
        /\ UNCHANGED <<ws, listeners, bs, hasProvider, extAccount, extChain, notified, gw, qr, list, form, w3>>

\* connectMetaMask: eth_requestAccounts answers.  A rejection makes the
\* detection service report failure, and switchWallet returns false.
SwitchWalletAccounts ==
    \E op \in At("switchWallet", "connectWallet") : \E o \in RequestOutcomes :
        /\ op.arg = "metamask" /\ hasProvider
        /\ extAccount' = AccountAfter(o)
        /\ ops' = IF o = "reject" THEN ops \ {op}
                  ELSE (ops \ {op}) \cup
                       {[op EXCEPT !.pc = "chainId",
                                   !.acct = IF o = "empty" THEN NULL ELSE o]}
        /\ UNCHANGED <<ws, listeners, bs, hasProvider, extChain, notified, gw, qr, list, form, w3>>

\* connectMetaMask: eth_chainId answers and the detection service installs its
\* own handlers; switchWallet returns false for an empty account list, else it
\* asks for the native balance.
SwitchWalletChainId ==
    \E op \in At("switchWallet", "chainId") :
        /\ listeners' = setupAccountChangeListener(listeners)
        /\ ops' = IF op.acct = NULL THEN ops \ {op}
                  ELSE (ops \ {op}) \cup
                       {[op EXCEPT !.pc = "balance", !.chain = extChain,
                                   !.bal = EthLedger(op.acct, extChain)]}
        /\ UNCHANGED <<ws, bs, hasProvider, extAccount, extChain, notified, gw, qr, list, form, w3>>

\* eth_getBalance answers: the connected state is written and
\* blockchainService.switchWalletProvider cleans up and enters initialize.
SwitchWalletBalance ==
    \E op \in At("switchWallet", "balance") :
        /\ ws' = ConnectedState(op.acct, op.bal, op.chain)
        /\ bs' = cleanup(bs)
        /\ ops' = (ops \ {op}) \cup {[op EXCEPT !.pc = "providerInit"]}
        /\ UNCHANGED <<listeners, hasProvider, extAccount, extChain, notified, gw, qr, list, form, w3>>

\* switchWalletProvider's initialize returns; switchWallet returns true
\* whatever it returned.
SwitchWalletProviderInit ==
    \E op \in At("switchWallet", "providerInit") : \E o \in InitializeOutcomes :
        /\ bs' = initializeResume(bs, o, extChain)
        /\ ops' = ops \ {op}
        /\ UNCHANGED <<ws, listeners, hasProvider, extAccount, extChain, notified, gw, qr, list, form, w3>>

\* --------------------------------------------------------------- payInvoice
\* BlockchainService.payInvoice is entered: without contracts or signer it
\* returns an error, else it reads the invoice through this.invoiceContract,
\* the binding the call then runs against (field arg).
PayInvoice ==
    /\ CanStart
    /\ IF bs.contracts = NULL \/ ~bs.signer
       THEN UNCHANGED ops
       ELSE ops' = ops \cup
                {Op("payInvoice", "getInvoice", NULL, NULL, extChain, NULL, bs.contracts)}
    /\ UNCHANGED <<ws, listeners, bs, hasProvider, extAccount, extChain, notified, gw, qr, list, form, w3>>

\* The payment's contract calls end (paid or failed): the wallet state is not
\* written by it.
PayInvoiceDone ==
    \E op \in At("payInvoice", "getInvoice") :
        /\ ops' = ops \ {op}
        /\ UNCHANGED <<ws, listeners, bs, hasProvider, extAccount, extChain, notified, gw, qr, list, form, w3>>

\* ------------------------------------------- BlockchainService.payInvoice
\* An external call answers or throws (the node refuses, the user rejects the
\* transaction, the transaction reverts).
CallOutcomes == {"ok", "throws"}

\* The error message of a call that threw.
CallError == "call exception"

\* The gateway calls name on the provider and waits at pc.
Issue(g, name, pc) == [g EXCEPT !.pc = pc, !.trace = Append(@, name)]

\* Something the provider reported is noted in the trace.
Noted(g, event) == [g EXCEPT !.trace = Append(@, event)]

\* The call returns { success: false, error: message }.
Fails(g, message) == [g EXCEPT !.pc = "done", !.result = message]

\* A call of operation op of gateway impl, with the chain as it is.
GatewayCall(impl, op, caller, onChain, reverts, balance, allowance) ==
    [GatewayIdle EXCEPT !.impl = impl, !.op = op, !.pc = "enter", !.caller = caller,
                        !.onChain = onChain, !.reverts = reverts,
                        !.balance = balance, !.allowance = allowance]

\* The chain states a call can meet: only an id without invoice can revert.
ChainStates ==
    {c \in [onChain : ChainInvoices, reverts : BOOLEAN] :
        c.reverts => c.onChain = NoInvoice}

\* A balance check that lets every balance through.
BalanceNotChecked(g) == FALSE

\* balance.lt(invoice.amount)
BalanceShort(g) == g.balance < g.invoice.amount

\* An allowance check that also asks for approval of an exactly sufficient
\* allowance.
AllowanceShortOrEqual(g) == g.allowance <= g.invoice.amount

\* allowance.lt(invoice.amount)
AllowanceShort(g) == g.allowance < g.invoice.amount

\* this.invoiceContract, this.pyusdContract and this.signer are set.
Initialized(b) == b.contracts # NULL /\ b.signer

\* payInvoice(invoiceId) is called: without contracts or signer it fails, else
\* getInvoice asks the contract for the invoice.
BsPayInvoice ==
    /\ gw.pc = "idle"
    /\ \E caller \in Accounts, c \in ChainStates, balance \in Amounts, allowance \in Amounts :
         LET g == GatewayCall("BlockchainService", "payInvoice", caller,
                              c.onChain, c.reverts, balance, allowance)
         IN  gw' = IF Initialized(bs) THEN Issue(g, "getInvoice", "getInvoice")
                   ELSE Fails(g, "Blockchain service not initialized")
    /\ UNCHANGED <<wallet, qr, list, form, w3>>

\* BlockchainService.getInvoice's answer: null when the call threw, else the
\* struct's fields as a record, whatever its exists flag.
BsInvoiceRead(g, o) ==
    IF o = "throws" \/ g.reverts
    THEN [g EXCEPT !.found = FALSE, !.invoice = NoInvoice]
    ELSE [g EXCEPT !.found = TRUE, !.invoice = g.onChain]

\* getInvoice returns: the invoice must be there and unpaid, then the signer is
\* asked for its address.
BsPayGotInvoice ==
    /\ gw.op = "payInvoice" /\ gw.impl = "BlockchainService" /\ gw.pc = "getInvoice"
    /\ \E o \in CallOutcomes :
         LET g == BsInvoiceRead(gw, o)
         IN  gw' = IF ~g.found THEN Fails(g, "Invoice not found")
                   ELSE IF g.invoice.status # UNPAID
                   THEN Fails(g, "Invoice is not in unpaid status")
                   ELSE Issue(g, "getAddress", "getAddress")
    /\ UNCHANGED <<wallet, qr, list, form, w3>>

\* signer.getAddress() answers: the creator may not pay; then the balance is
\* asked for.
BsPayGotAddress ==
    /\ gw.op = "payInvoice" /\ gw.impl = "BlockchainService" /\ gw.pc = "getAddress"
    /\ \E o \in CallOutcomes :
         gw' = IF o = "throws" THEN Fails(gw, CallError)
               ELSE IF gw.invoice.creator = gw.caller
               THEN Fails(gw, "Cannot pay your own invoice")
               ELSE Issue(gw, "balanceOf", "balanceOf")
    /\ UNCHANGED <<wallet, qr, list, form, w3>>

\* balanceOf answers: balance.lt(invoice.amount) fails, else the allowance is
\* asked for.
BsPayGotBalance ==
    /\ gw.op = "payInvoice" /\ gw.impl = "BlockchainService" /\ gw.pc = "balanceOf"
    /\ \E o \in CallOutcomes :
         gw' = IF o = "throws" THEN Fails(gw, CallError)
               ELSE IF BalanceShort(gw)
               THEN Fails(gw, "Insufficient PYUSD balance")
               ELSE Issue(gw, "allowance", "allowance")
    /\ UNCHANGED <<wallet, qr, list, form, w3>>

\* allowance answers: allowance.lt(invoice.amount) sends approve, else the
\* payment is sent at once.
BsPayGotAllowance ==
    /\ gw.op = "payInvoice" /\ gw.impl = "BlockchainService" /\ gw.pc = "allowance"
    /\ \E o \in CallOutcomes :
         gw' = IF o = "throws" THEN Fails(gw, CallError)
               ELSE IF AllowanceShort(gw)
               THEN Issue(gw, "approve", "approve")
               ELSE Issue(gw, "payInvoice", "payInvoice")
    /\ UNCHANGED <<wallet, qr, list, form, w3>>

\* approve is sent (or rejected); its confirmation is awaited.
BsPayApproveSent ==
    /\ gw.op = "payInvoice" /\ gw.impl = "BlockchainService" /\ gw.pc = "approve"
    /\ \E o \in CallOutcomes :
         gw' = IF o = "throws" THEN Fails(gw, CallError)
               ELSE [gw EXCEPT !.pc = "approveWait"]
    /\ UNCHANGED <<wallet, qr, list, form, w3>>

\* approveTx.wait() returns: the payment is sent.
BsPayApproveConfirmed ==
    /\ gw.op = "payInvoice" /\ gw.impl = "BlockchainService" /\ gw.pc = "approveWait"
    /\ \E o \in CallOutcomes :
         gw' = IF o = "throws" THEN Fails(gw, CallError)
               ELSE Issue(Noted(gw, "approveConfirmed"), "payInvoice", "payInvoice")
    /\ UNCHANGED <<wallet, qr, list, form, w3>>

\* The payInvoice transaction is sent (or rejected); its confirmation is
\* awaited.
BsPaySent ==
    /\ gw.op = "payInvoice" /\ gw.impl = "BlockchainService" /\ gw.pc = "payInvoice"
    /\ \E o \in CallOutcomes :
         gw' = IF o = "throws" THEN Fails(gw, CallError)
               ELSE [gw EXCEPT !.pc = "payWait"]
    /\ UNCHANGED <<wallet, qr, list, form, w3>>

\* payTx.wait() returns: { success: true }.
BsPayConfirmed ==
    /\ gw.op = "payInvoice" /\ gw.impl = "BlockchainService" /\ gw.pc = "payWait"
    /\ \E o \in CallOutcomes :
         gw' = IF o = "throws" THEN Fails(gw, CallError)
               ELSE [gw EXCEPT !.pc = "done", !.result = "success"]
    /\ UNCHANGED <<wallet, qr, list, form, w3>>

\* ------------------------------------------------- Web3Service.payInvoice
\* payInvoice(invoiceId) is called on Web3Service, whose contracts are set
\* (bound) or not.
W3PayInvoice ==
    /\ gw.pc = "idle"
    /\ \E bound \in BOOLEAN, caller \in Accounts, c \in ChainStates,
          balance \in Amounts, allowance \in Amounts :
         LET g == [GatewayCall("Web3Service", "payInvoice", caller,
                               c.onChain, c.reverts, balance, allowance)
                      EXCEPT !.bound = bound]
         IN  gw' = IF bound THEN Issue(g, "getInvoice", "getInvoice")
                   ELSE Fails(g, "Contracts not initialized")
    /\ UNCHANGED <<wallet, qr, list, form, w3>>

\* invoiceContract.getInvoice answers: its amount is taken as it is and the
\* signer is asked for its address.
W3PayGotInvoice ==
    /\ gw.op = "payInvoice" /\ gw.impl = "Web3Service" /\ gw.pc = "getInvoice"
    /\ \E o \in CallOutcomes :
         gw' = IF o = "throws" \/ gw.reverts THEN Fails(gw, CallError)
               ELSE Issue([gw EXCEPT !.found = TRUE, !.invoice = gw.onChain],
                          "getAddress", "getAddress")
    /\ UNCHANGED <<wallet, qr, list, form, w3>>

\* signer.getAddress() answers: the balance is asked for.
W3PayGotAddress ==
    /\ gw.op = "payInvoice" /\ gw.impl = "Web3Service" /\ gw.pc = "getAddress"
    /\ \E o \in CallOutcomes :
         gw' = IF o = "throws" THEN Fails(gw, CallError)
               ELSE Issue(gw, "balanceOf", "balanceOf")
    /\ UNCHANGED <<wallet, qr, list, form, w3>>

\* balanceOf answers: balance.lt(amount) fails, else the allowance is asked
\* for.
W3PayGotBalance ==
    /\ gw.op = "payInvoice" /\ gw.impl = "Web3Service" /\ gw.pc = "balanceOf"
    /\ \E o \in CallOutcomes :
         gw' = IF o = "throws" THEN Fails(gw, CallError)
               ELSE IF BalanceShort(gw)
               THEN Fails(gw, "Insufficient PYUSD balance")
               ELSE Issue(gw, "allowance", "allowance")
    /\ UNCHANGED <<wallet, qr, list, form, w3>>

\* allowance answers: allowance.lt(amount) sends approve, else the gas of the
\* payment is estimated.
W3PayGotAllowance ==
    /\ gw.op = "payInvoice" /\ gw.impl = "Web3Service" /\ gw.pc = "allowance"
    /\ \E o \in CallOutcomes :
         gw' = IF o = "throws" THEN Fails(gw, CallError)
               ELSE IF AllowanceShort(gw)
               THEN Issue(gw, "approve", "approve")
               ELSE Issue(gw, "estimateGas", "estimateGas")
    /\ UNCHANGED <<wallet, qr, list, form, w3>>

\* approve is sent (or rejected); its confirmation is awaited.
W3PayApproveSent ==
    /\ gw.op = "payInvoice" /\ gw.impl = "Web3Service" /\ gw.pc = "approve"
    /\ \E o \in CallOutcomes :
         gw' = IF o = "throws" THEN Fails(gw, CallError)
               ELSE [gw EXCEPT !.pc = "approveWait"]
    /\ UNCHANGED <<wallet, qr, list, form, w3>>

\* approveTx.wait() returns: the gas of the payment is estimated.
W3PayApproveConfirmed ==
    /\ gw.op = "payInvoice" /\ gw.impl = "Web3Service" /\ gw.pc = "approveWait"
    /\ \E o \in CallOutcomes :
         gw' = IF o = "throws" THEN Fails(gw, CallError)
               ELSE Issue(Noted(gw, "approveConfirmed"), "estimateGas", "estimateGas")
    /\ UNCHANGED <<wallet, qr, list, form, w3>>

\* estimateGas.payInvoice answers: the payInvoice transaction is sent.
W3PayEstimated ==
    /\ gw.op = "payInvoice" /\ gw.impl = "Web3Service" /\ gw.pc = "estimateGas"
    /\ \E o \in CallOutcomes :
         gw' = IF o = "throws" THEN Fails(gw, CallError)
               ELSE Issue(gw, "payInvoice", "payInvoice")
    /\ UNCHANGED <<wallet, qr, list, form, w3>>

\* The payInvoice transaction is sent (or rejected); its confirmation is
\* awaited.
W3PaySent ==
    /\ gw.op = "payInvoice" /\ gw.impl = "Web3Service" /\ gw.pc = "payInvoice"
    /\ \E o \in CallOutcomes :
         gw' = IF o = "throws" THEN Fails(gw, CallError)
               ELSE [gw EXCEPT !.pc = "payWait"]
    /\ UNCHANGED <<wallet, qr, list, form, w3>>

\* tx.wait() returns: { success: true }.
W3PayConfirmed ==
    /\ gw.op = "payInvoice" /\ gw.impl = "Web3Service" /\ gw.pc = "payWait"
    /\ \E o \in CallOutcomes :
         gw' = IF o = "throws" THEN Fails(gw, CallError)
               ELSE [gw EXCEPT !.pc = "done", !.result = "success"]
    /\ UNCHANGED <<wallet, qr, list, form, w3>>

\* ------------------------------------------ BlockchainService.createInvoice
\* The two IPFSService classes of the repository: the singleton of
\* ipfsService.ts, which only makes up a hash, and the Pinata client.
IpfsServices == {"mock", "pinata"}

\* ipfsService.ts uploadInvoiceData: success with a mock hash, nothing sent.
MockUpload == [success |-> TRUE, stored |-> FALSE]

\* The Pinata client's uploadInvoiceData once its request has answered: when
\* the request failed and isDevelopment() holds (NODE_ENV is development or no
\* API key is configured) simulateIPFSUpload reports success with a made-up
\* hash.
PinataUpload(o, dev) ==
    IF o = "ok" THEN [success |-> TRUE, stored |-> TRUE]
    ELSE IF dev THEN [success |-> TRUE, stored |-> FALSE]
    ELSE [success |-> FALSE, stored |-> FALSE]

\* createInvoice(invoiceData) is called: without contract or signer it fails,
\* else uploadInvoiceData is awaited.
BsCreateInvoice ==
    /\ gw.pc = "idle"
    /\ \E ipfs \in IpfsServices, dev \in BOOLEAN :
         LET g == [GatewayIdle EXCEPT !.impl = "BlockchainService", !.op = "createInvoice",
                                      !.ipfs = ipfs, !.dev = dev]
         IN  gw' = IF ~Initialized(bs) THEN Fails(g, "Blockchain service not initialized")
                   ELSE IF ipfs = "pinata" THEN Issue(g, "pinJSONToIPFS", "upload")
                   ELSE [g EXCEPT !.pc = "upload"]
    /\ UNCHANGED <<wallet, qr, list, form, w3>>

\* uploadInvoiceData returns: on success the contract's createInvoice is sent
\* with the hash it gave.
BsCreateUploaded ==
    /\ gw.op = "createInvoice" /\ gw.pc = "upload"
    /\ \E o \in CallOutcomes :
         LET r == IF gw.ipfs = "mock" THEN MockUpload ELSE PinataUpload(o, gw.dev)
         IN  gw' = IF ~r.success THEN Fails(gw, "Failed to upload to IPFS")
                   ELSE Issue([gw EXCEPT !.stored = r.stored],
                              "createInvoice", "createInvoice")
    /\ UNCHANGED <<wallet, qr, list, form, w3>>

\* The createInvoice transaction is sent (or rejected); its confirmation is
\* awaited.
BsCreateSent ==
    /\ gw.op = "createInvoice" /\ gw.pc = "createInvoice"
    /\ \E o \in CallOutcomes :
         gw' = IF o = "throws" THEN Fails(gw, CallError)
               ELSE [gw EXCEPT !.pc = "createWait"]
    /\ UNCHANGED <<wallet, qr, list, form, w3>>

\* tx.wait() returns: { success: true, invoiceId }.
BsCreateConfirmed ==
    /\ gw.op = "createInvoice" /\ gw.pc = "createWait"
    /\ \E o \in CallOutcomes :
         gw' = IF o = "throws" THEN Fails(gw, CallError)
               ELSE [gw EXCEPT !.pc = "done", !.result = "success"]
    /\ UNCHANGED <<wallet, qr, list, form, w3>>

\* ------------------------------------------ getInvoice, getOrganizationInvoices
\* BlockchainService.getInvoice(invoiceId) is called: null without contract.
BsGetInvoice ==
    /\ gw.pc = "idle"
    /\ \E c \in ChainStates :
         LET g == GatewayCall("BlockchainService", "getInvoice", NULL,
                              c.onChain, c.reverts, 0, 0)
         IN  gw' = IF bs.contracts = NULL THEN Fails(g, "null")
                   ELSE Issue(g, "getInvoice", "getInvoice")
    /\ UNCHANGED <<wallet, qr, list, form, w3>>

\* The contract answers BlockchainService.getInvoice.
BsGotInvoice ==
    /\ gw.op = "getInvoice" /\ gw.impl = "BlockchainService" /\ gw.pc = "getInvoice"
    /\ \E o \in CallOutcomes :
         LET g == BsInvoiceRead(gw, o)
         IN  gw' = [g EXCEPT !.pc = "done", !.result = IF g.found THEN "invoice" ELSE "null"]
    /\ UNCHANGED <<wallet, qr, list, form, w3>>

\* Web3Service.getInvoice(invoiceId) is called: null without contract.
W3GetInvoice ==
    /\ gw.pc = "idle"
    /\ \E bound \in BOOLEAN, c \in ChainStates :
         LET g == [GatewayCall("Web3Service", "getInvoice", NULL,
                               c.onChain, c.reverts, 0, 0) EXCEPT !.bound = bound]
         IN  gw' = IF ~bound THEN Fails(g, "null")
                   ELSE Issue(g, "getInvoice", "getInvoice")
    /\ UNCHANGED <<wallet, qr, list, form, w3>>

\* The contract answers Web3Service.getInvoice: null when the call threw or
\* the struct's exists flag is false.
W3GotInvoice ==
    /\ gw.op = "getInvoice" /\ gw.impl = "Web3Service" /\ gw.pc = "getInvoice"
    /\ \E o \in CallOutcomes :
         gw' = IF o = "throws" \/ gw.reverts \/ ~gw.onChain.exists
               THEN Fails(gw, "null")
               ELSE [gw EXCEPT !.pc = "done", !.found = TRUE, !.invoice = gw.onChain,
                               !.result = "invoice"]
    /\ UNCHANGED <<wallet, qr, list, form, w3>>

\* Most invoice ids the contract lists for an address.
MaxListed == 2

\* getOrganizationInvoices(address) is called on either gateway (the two
\* bodies are the same): [] without contract.
GetOrganizationInvoices ==
    /\ gw.pc = "idle"
    /\ \E impl \in Gateways, bound \in BOOLEAN, count \in 0..MaxListed :
         LET g == [GatewayIdle EXCEPT !.impl = impl, !.op = "getOrganizationInvoices",
                                      !.bound = bound, !.count = count]
             has == IF impl = "BlockchainService" THEN bs.contracts # NULL ELSE bound
         IN  /\ impl = "BlockchainService" => ~bound
             /\ gw' = IF ~has THEN Fails(g, "[]")
                      ELSE Issue(g, "getOrganizationInvoices", "list")
    /\ UNCHANGED <<wallet, qr, list, form, w3>>

\* The contract answers getOrganizationInvoices: the ids, [] when it threw.
GotOrganizationInvoices ==
    /\ gw.op = "getOrganizationInvoices" /\ gw.pc = "list"
    /\ \E o \in CallOutcomes :
         gw' = IF o = "throws" \/ gw.count = 0 THEN Fails(gw, "[]")
               ELSE [gw EXCEPT !.pc = "done", !.result = "ids"]
    /\ UNCHANGED <<wallet, qr, list, form, w3>>

\* The caller takes the result; another call may follow.
GatewayReturn ==
    /\ gw.pc = "done"
    /\ gw' = GatewayIdle
    /\ UNCHANGED <<wallet, qr, list, form, w3>>

\* ------------------------------------------- amount codec and payment URIs
\* formatTokenAmount(amount, 6) is applied to a non-negative amount.
FormatTokenAmount ==
    /\ qr.pc = "idle"
    /\ \E n \in Micros :
         qr' = [CodecIdle EXCEPT !.fn = "formatTokenAmount", !.pc = "done",
                                 !.amount = AmountText("decimal", FALSE, n),
                                 !.success = TRUE, !.units = formatTokenAmount(n)]
    /\ UNCHANGED <<wallet, gw, list, form, w3>>

\* createMetaMaskDeepLink(invoiceId, amount, contractAddress): the amount and
\* the address go into the template as they are.
createMetaMaskDeepLink(amount, contractAddress) == TransferUri(contractAddress, amount, <<>>)

CreateMetaMaskDeepLink ==
    /\ qr.pc = "idle"
    /\ \E amount \in AmountTexts, to \in AddressTexts :
         qr' = [CodecIdle EXCEPT !.fn = "createMetaMaskDeepLink", !.pc = "done",
                                 !.amount = amount, !.to = to, !.success = TRUE,
                                 !.uri = createMetaMaskDeepLink(amount, to)]
    /\ UNCHANGED <<wallet, gw, list, form, w3>>

\* The builder's call ends in its catch block.
Rejected(q, message) == [q EXCEPT !.pc = "done", !.success = FALSE, !.error = message]

\* The URI parameters when no gas parameter is appended.
NoGasHint == <<>>

\* The parameter generatePYUSDPaymentQR appends to its URI.
GasHint == <<"gas=100000">>

\* !amount || isNaN(parseFloat(amount)) || parseFloat(amount) <= 0
InvalidAmount(amount) ==
    \/ amount.text = "missing"
    \/ isNaN(Parsed(amount))
    \/ NotPositive(Parsed(amount))

\* generatePYUSDPaymentQR(invoiceId, amount, contractAddress) up to its
\* await of QRCode.toDataURL: validation, conversion, the URI.
generatePYUSDPaymentQR(q) ==
    LET amountInWei == floor(Scaled(q.amount))
    IN  IF NETWORKS.sepolia.pyusdAddress = NULL
        THEN Rejected(q, "PYUSD token address not configured for Sepolia network")
        ELSE IF q.to = NoAddress \/ ~isAddress(q.to)
        THEN Rejected(q, "Invalid contract address provided")
        ELSE IF InvalidAmount(q.amount)
        THEN Rejected(q, "Invalid amount provided")
        ELSE [q EXCEPT !.pc = "toDataURL", !.units = amountInWei,
                       !.uri = TransferUri(q.to, AmountText("integer", FALSE, amountInWei),
                                           GasHint)]

GeneratePYUSDPaymentQR ==
    /\ qr.pc = "idle"
    /\ \E amount \in AmountTexts, to \in AddressTexts :
         qr' = generatePYUSDPaymentQR(
                   [CodecIdle EXCEPT !.fn = "generatePYUSDPaymentQR",
                                     !.amount = amount, !.to = to])
    /\ UNCHANGED <<wallet, gw, list, form, w3>>

\* parseInt of an integer's digits: the nearest double.
parseInt(w) == IF w.nan THEN NaN ELSE RoundToDouble(w.neg, w.bits, 0, FALSE)

\* The binary digits of a whole double: the mantissa, then exp zeros.
WholeBits(x) == x.mant \o [i \in 1..x.exp |-> 0]

\* The hexadecimal digits of a bit sequence (<<0>> for the empty one).
HexDigits(b) ==
    LET n      == (Len(b) + 3) \div 4
        padded == [i \in 1..(4 * n - Len(b)) |-> 0] \o b
    IN  IF b = <<>> THEN <<0>>
        ELSE [i \in 1..n |-> Natural(padded, 4 * i - 3, 4 * i)]

\* x.toString(16) of a whole double.
toString16(x) ==
    IF isNaN(x) THEN HexText(TRUE, FALSE, <<>>)
    ELSE HexText(FALSE, x.neg /\ x.mant # <<>>, HexDigits(WholeBits(x)))

\* How many characters a hexadecimal text has.
Length(h) == IF h.nan THEN 3 ELSE Len(h.digits) + (IF h.neg THEN 1 ELSE 0)

\* How many zeros padStart(64, '0') puts before a string of n characters.
padStart(n) == IF n < 64 THEN 64 - n ELSE 0

\* Math.floor(x).toString() as the digits of an integer.
FloorText(x) ==
    IF isNaN(x) THEN IntegerText(TRUE, FALSE, <<>>)
    ELSE IF floor(x) < 0 THEN IntegerText(FALSE, TRUE, Binary(0 - floor(x)))
    ELSE IntegerText(FALSE, FALSE, Binary(floor(x)))

\* encodeTransferFunction(to, amount): the 0x of the address is dropped,
\* address and parseInt(amount).toString(16) are padded to 64 characters.
encodeTransferFunction(to, amount) ==
    LET amountParam == toString16(parseInt(amount))
    IN  Calldata("a9059cbb", padStart(to.digits), to,
                 padStart(Length(amountParam)), amountParam)

\* Integer amounts in base units: some small ones, and the integers around
\* 2^53.
MaxUnits == 20
BeyondDouble ==
    {[i \in 1..54 |-> IF i = 1 \/ (i = 53 /\ two) \/ (i = 54 /\ one) THEN 1 ELSE 0] :
         two \in BOOLEAN, one \in BOOLEAN}
UnitTexts ==
    {IntegerText(FALSE, FALSE, Binary(k)) : k \in 0..MaxUnits}
    \cup {IntegerText(FALSE, FALSE, b) : b \in BeyondDouble}

\* encodeTransferFunction is applied to an address and an integer amount.
EncodeTransferFunction ==
    /\ qr.pc = "idle"
    /\ \E to \in AddressTexts, amount \in UnitTexts :
         qr' = [CodecIdle EXCEPT !.fn = "encodeTransferFunction", !.pc = "done",
                                 !.to = to, !.wei = amount, !.success = TRUE,
                                 !.link = Link("mobile", to, NoChain, FALSE, NoAmount,
                                               NoLink.value,
                                               encodeTransferFunction(to, amount))]
    /\ UNCHANGED <<wallet, gw, list, form, w3>>

\* generatePaymentQR(invoiceId, amount, contractAddress) up to its await of
\* QRCode.toDataURL: the deep link of the inputs as they are.
GeneratePaymentQR ==
    /\ qr.pc = "idle"
    /\ \E amount \in AmountTexts, to \in AddressTexts :
         qr' = [CodecIdle EXCEPT !.fn = "generatePaymentQR", !.pc = "toDataURL",
                                 !.amount = amount, !.to = to,
                                 !.uri = createMetaMaskDeepLink(amount, to)]
    /\ UNCHANGED <<wallet, gw, list, form, w3>>

\* generateMetaMaskMobileQR(invoiceId, amount, contractAddress) up to its
\* await of QRCode.toDataURL: the conversion, the call data, the link.
generateMetaMaskMobileQR(q) ==
    LET amountInWei == FloorText(Scaled(q.amount))
    IN  IF NETWORKS.sepolia.pyusdAddress = NULL
        THEN Rejected(q, "PYUSD token address not configured")
        ELSE [q EXCEPT !.pc = "toDataURL", !.wei = amountInWei,
                       !.link = Link("mobile", q.to, NETWORKS.sepolia.chainId, FALSE,
                                     q.amount, NoLink.value,
                                     encodeTransferFunction(q.to, amountInWei))]

GenerateMetaMaskMobileQR ==
    /\ qr.pc = "idle"
    /\ \E amount \in AmountTexts, to \in AddressTexts :
         qr' = generateMetaMaskMobileQR(
                   [CodecIdle EXCEPT !.fn = "generateMetaMaskMobileQR",
                                     !.amount = amount, !.to = to])
    /\ UNCHANGED <<wallet, gw, list, form, w3>>

\* generateStructuredPaymentQR(invoiceId, amount, contractAddress) up to its
\* await of QRCode.toDataURL: the payload, its value parseFloat(amount) * 1e6.
generateStructuredPaymentQR(q) ==
    IF NETWORKS.sepolia.pyusdAddress = NULL
    THEN Rejected(q, "PYUSD token address not configured")
    ELSE [q EXCEPT !.pc = "toDataURL",
                   !.link = Link("json", q.to, NETWORKS.sepolia.chainId, TRUE, q.amount,
                                 Scaled(q.amount), NoCalldata)]

GenerateStructuredPaymentQR ==
    /\ qr.pc = "idle"
    /\ \E amount \in AmountTexts, to \in AddressTexts :
         qr' = generateStructuredPaymentQR(
                   [CodecIdle EXCEPT !.fn = "generateStructuredPaymentQR",
                                     !.amount = amount, !.to = to])
    /\ UNCHANGED <<wallet, gw, list, form, w3>>

\* generateGenericPaymentQR(to, amount, chainId) up to its await of
\* QRCode.toDataURL: the chain must be in NETWORKS; value= is left out for
\* no amount and for '0'.
GenerateGenericPaymentQR ==
    /\ qr.pc = "idle"
    /\ \E amount \in AmountTexts, to \in AddressTexts, chainId \in ChainIds :
         LET q == [CodecIdle EXCEPT !.fn = "generateGenericPaymentQR",
                                    !.amount = amount, !.to = to]
             hasValue == amount.text # "missing" /\ amount # AmountText("decimal", FALSE, 0)
         IN  qr' = IF ~\E k \in {"sepolia", "ethereum"} : NETWORKS[k].chainId = chainId
                   THEN Rejected(q, "Unsupported network")
                   ELSE [q EXCEPT !.pc = "toDataURL",
                                  !.link = Link("generic", to, chainId, hasValue, amount,
                                                NoLink.value, NoCalldata)]
    /\ UNCHANGED <<wallet, gw, list, form, w3>>

\* QRCode.toDataURL resolves with the image of the URI; the call returns both.
QRCodeDrawn ==
    /\ qr.pc = "toDataURL"
    /\ qr' = [qr EXCEPT !.pc = "done", !.success = TRUE, !.image = TRUE]
    /\ UNCHANGED <<wallet, gw, list, form, w3>>

\* What the builders report when QRCode.toDataURL rejects.
DrawError == "toDataURL failed"

\* QRCode.toDataURL rejects: the call ends in its catch block, which returns
\* the error and neither URI nor image.
QRCodeFailed ==
    /\ qr.pc = "toDataURL"
    /\ qr' = [Rejected(qr, DrawError) EXCEPT !.uri = NoUri, !.link = NoLink]
    /\ UNCHANGED <<wallet, gw, list, form, w3>>

\* The caller takes the result; another call may follow.
CodecReturn ==
    /\ qr.pc = "done"
    /\ qr' = CodecIdle
    /\ UNCHANGED <<wallet, gw, list, form, w3>>

\* ------------------------------------------------------------ invoice views
\* invoice.amount: the decimal digits of the amount the contract holds.
UnitsText(units) == AmountText("decimal", FALSE, units * 1000000)

\* invoice.creator: an address as the contract returns it.
Creators == {AddressText(40, TRUE, "good")}

\* The messages of the errors QRCode.toDataURL rejects with; one is empty.
DrawMessages == {DrawError, ""}

\* `error.message || '...'` in the catch block of a builder.
MessageOr(message, fn) ==
    IF message # "" THEN message
    ELSE CASE fn = "generateMetaMaskMobileQR" -> "Failed to generate MetaMask mobile QR"
           [] fn = "generatePYUSDPaymentQR" -> "Failed to generate PYUSD payment QR"
           [] OTHER -> "Failed to generate structured payment QR"

\* A builder is called with the invoice's amount string and creator.
BuilderCall(fn, units, creator) ==
    [CodecIdle EXCEPT !.fn = fn, !.amount = UnitsText(units), !.to = creator]

\* handleGenerateQR(invoice) up to its first await: the toast, and the call
\* of generateMetaMaskMobileQR.
HandleGenerateQR ==
    /\ list.pc = "idle"
    /\ \E units \in Amounts, creator \in Creators :
         list' = [ListIdle EXCEPT
                     !.pc = "mobile", !.by = "handleGenerateQR",
                     !.units = units, !.creator = creator,
                     !.toast = Toast("Generating payment QR code...", ""),
                     !.tried = <<"generateMetaMaskMobileQR">>,
                     !.call = generateMetaMaskMobileQR(
                                  BuilderCall("generateMetaMaskMobileQR", units, creator))]
    /\ UNCHANGED <<wallet, gw, qr, form, w3>>

\* QRCode.toDataURL resolves inside the builder the handler awaits.
BuilderDraws ==
    /\ list.call.pc = "toDataURL"
    /\ list' = [list EXCEPT !.call = [@ EXCEPT !.pc = "done", !.success = TRUE,
                                               !.image = TRUE]]
    /\ UNCHANGED <<wallet, gw, qr, form, w3>>

\* QRCode.toDataURL rejects inside the builder the handler awaits: the
\* builder's catch block returns the error.
BuilderDrawFails ==
    /\ list.call.pc = "toDataURL"
    /\ \E message \in DrawMessages :
         list' = [list EXCEPT !.call = [Rejected(@, MessageOr(message, @.fn))
                                            EXCEPT !.uri = NoUri, !.link = NoLink]]
    /\ UNCHANGED <<wallet, gw, qr, form, w3>>

\* The end of handleGenerateQR with qrResult r: the modal and the success
\* toast, or the throw whose catch block puts the error in a toast.
ShowOrThrow(l, r) ==
    IF r.success /\ r.image
    THEN [l EXCEPT !.pc = "done", !.call = CodecIdle, !.qrResult = r, !.modal = TRUE,
                   !.toast = Toast("QR code generated successfully!", "")]
    ELSE [l EXCEPT !.pc = "done", !.call = CodecIdle, !.qrResult = r,
                   !.toast = Toast("Failed to generate QR code: ",
                                   IF r.error = "none"
                                   THEN "Failed to generate QR code with all methods"
                                   ELSE r.error)]

\* The handler has a builder's result: its error joins those returned so far.
WithError(l) == [l EXCEPT !.errors = Append(@, l.call.error)]

\* generateMetaMaskMobileQR returns into qrResult; on a failure
\* generatePYUSDPaymentQR is called.
MobileReturns ==
    /\ list.pc = "mobile" /\ list.call.pc = "done"
    /\ list' = IF list.call.success
               THEN ShowOrThrow(WithError(list), list.call)
               ELSE [WithError(list) EXCEPT
                        !.pc = "eip681", !.qrResult = list.call,
                        !.tried = Append(@, "generatePYUSDPaymentQR"),
                        !.call = generatePYUSDPaymentQR(
                                     BuilderCall("generatePYUSDPaymentQR",
                                                 list.units, list.creator))]
    /\ UNCHANGED <<wallet, gw, qr, form, w3>>

\* generatePYUSDPaymentQR returns: a success replaces qrResult, a failure
\* leaves it and generateStructuredPaymentQR is called.
EipReturns ==
    /\ list.pc = "eip681" /\ list.call.pc = "done"
    /\ list' = IF list.call.success
               THEN ShowOrThrow(WithError(list), list.call)
               ELSE [WithError(list) EXCEPT
                        !.pc = "structured",
                        !.tried = Append(@, "generateStructuredPaymentQR"),
                        !.call = generateStructuredPaymentQR(
                                     BuilderCall("generateStructuredPaymentQR",
                                                 list.units, list.creator))]
    /\ UNCHANGED <<wallet, gw, qr, form, w3>>

\* generateStructuredPaymentQR returns: a success replaces qrResult, a
\* failure leaves it; the handler shows the QR or throws.
StructuredReturns ==
    /\ list.pc = "structured" /\ list.call.pc = "done"
    /\ list' = ShowOrThrow(WithError(list),
                           IF list.call.success THEN list.call ELSE list.qrResult)
    /\ UNCHANGED <<wallet, gw, qr, form, w3>>

\* BlockchainService.getContractAddress
getContractAddress(b) ==
    IF b.currentNetwork \in DOMAIN CONTRACT_ADDRESSES
    THEN CONTRACT_ADDRESSES[b.currentNetwork].invoiceManager
    ELSE NULL

\* BlockchainInvoiceCard.generateQRCode(invoice) up to its await of
\* generateMultiFormatQR, in a render with wallet state w: the alerts of
\* its early returns, or the universal link of qrData.
generateQRCode(w, b, units, creator) ==
    LET l == [ListIdle EXCEPT !.by = "generateQRCode", !.units = units,
                              !.creator = creator]
    IN  IF w.network = NULL
        THEN [l EXCEPT !.pc = "done", !.alert = "Network not detected"]
        ELSE IF getContractAddress(b) = NULL
        THEN [l EXCEPT !.pc = "done", !.alert = "Contract not deployed on this network"]
        ELSE [l EXCEPT !.pc = "card",
                       !.paymentLink = PaymentLink(getContractAddress(b),
                                                   NETWORKS[w.network].chainId,
                                                   creator, units)]

GenerateQRCode ==
    /\ list.pc = "idle"
    /\ \E units \in Amounts, creator \in Creators :
         list' = generateQRCode(ws, bs, units, creator)
    /\ UNCHANGED <<wallet, gw, qr, form, w3>>

\* generateMultiFormatQR resolves: the card shows the image and the link.
CardDraws ==
    /\ list.pc = "card"
    /\ list' = [list EXCEPT !.pc = "done", !.modal = TRUE]
    /\ UNCHANGED <<wallet, gw, qr, form, w3>>

\* generateMultiFormatQR throws: the card's catch block shows an alert.
CardDrawFails ==
    /\ list.pc = "card"
    /\ list' = [list EXCEPT !.pc = "done", !.paymentLink = NoPaymentLink,
                            !.alert = "Failed to generate QR code"]
    /\ UNCHANGED <<wallet, gw, qr, form, w3>>

\* The handler has returned; the user dismisses what it showed.
ViewDismiss ==
    /\ list.pc = "done"
    /\ list' = ListIdle
    /\ UNCHANGED <<wallet, gw, qr, form, w3>>

\* ------------------------------------------------------------- invoice form
\* Most line items of a draft.
MaxItems == 2
\* Largest quantity and largest rate typed into a line.
MaxQuantity == 2
MaxRate == 2
\* Most state updates queued between two renders of the form.
MaxPending == 2

\* What is typed into a text input: nothing, or some text.
Texts == {"", "Acme"}

\* A line amount that takes no account of the rate.
QuantityAlone(quantity, rate) == quantity

\* newItems[index].quantity * newItems[index].rate
LineAmount(quantity, rate) == quantity * rate

\* items.reduce((sum, item) => sum + item.amount, 0)
RECURSIVE SumFrom(_, _)
SumFrom(items, i) ==
    IF i > Len(items) THEN 0 ELSE items[i].amount + SumFrom(items, i + 1)
totalAmount(items) == SumFrom(items, 1)

\* setFormData(prev => next): React's state changes, the rendered formData
\* does not until the next render.
Queued(f, next) == [f EXCEPT !.data = next, !.pending = @ + 1]

CanQueue == form.pending < MaxPending

\* updateFormField(field, value), for the text fields the inputs pass.
UpdateFormField ==
    /\ CanQueue
    /\ \E value \in Texts :
         form' = Queued(form, [form.data EXCEPT !.companyName = value])
    /\ UNCHANGED <<wallet, gw, qr, list, w3>>

\* updateItem(index, field, value) once newItems[index] is item: the total
\* is summed over newItems, a copy of the rendered items, and both are set.
updateItem(f, index, item) ==
    LET newItems == [f.seen.items EXCEPT ![index] = item]
    IN  Queued(f, [f.data EXCEPT !.items = newItems, !.amount = totalAmount(newItems)])

\* updateItem as the line inputs call it: with a description, with the
\* parseInt of a quantity, with the parseFloat of a rate.
UpdateItem ==
    /\ CanQueue
    /\ \E index \in 1..Len(form.seen.items) :
         LET item == form.seen.items[index]
         IN  \/ \E value \in Texts :
                  form' = updateItem(form, index, [item EXCEPT !.description = value])
             \/ \E value \in 0..MaxQuantity :
                  form' = updateItem(form, index,
                              [item EXCEPT !.quantity = value,
                                           !.amount = LineAmount(value, item.rate)])
             \/ \E value \in 0..MaxRate :
                  form' = updateItem(form, index,
                              [item EXCEPT !.rate = value,
                                           !.amount = LineAmount(item.quantity, value)])
    /\ UNCHANGED <<wallet, gw, qr, list, w3>>

\* addItem: a new line after those of React's state; the total is kept.
AddItem ==
    /\ CanQueue
    /\ Len(form.data.items) < MaxItems
    /\ form' = Queued(form, [form.data EXCEPT !.items = Append(@, NewItem)])
    /\ UNCHANGED <<wallet, gw, qr, list, w3>>

\* items.filter((_, i) => i !== index)
Without(items, index) ==
    [i \in 1..(Len(items) - 1) |-> IF i < index THEN items[i] ELSE items[i + 1]]

\* removeItem(index): nothing when one line is rendered; else the rendered
\* lines without that one, and their total.
RemoveItem ==
    /\ CanQueue
    /\ Len(form.seen.items) > 1
    /\ \E index \in 1..Len(form.seen.items) :
         LET newItems == Without(form.seen.items, index)
         IN  form' = Queued(form, [form.data EXCEPT !.items = newItems,
                                                    !.amount = totalAmount(newItems)])
    /\ UNCHANGED <<wallet, gw, qr, list, w3>>

\* React renders the form: the handlers' closures now read the new state.
Render ==
    /\ form.pending > 0
    /\ form' = [form EXCEPT !.seen = form.data, !.pending = 0]
    /\ UNCHANGED <<wallet, gw, qr, list, w3>>

\* validateForm() on the rendered formData (clientName as companyName).
validateForm(d) ==
    IF d.companyName = "" THEN "Company name is required"
    ELSE IF d.amount <= 0 THEN "Amount must be greater than 0"
    ELSE IF \E i \in 1..Len(d.items) : d.items[i].description = ""
    THEN "All items must have a description"
    ELSE IF \E i \in 1..Len(d.items) : d.items[i].quantity <= 0
    THEN "All items must have quantity > 0"
    ELSE NULL

\* canSubmit(), which enables the submit button.
canSubmit ==
    /\ ws.isConnected
    /\ ws.network # NULL /\ NETWORKS[ws.network].supported
    /\ ~form.isSubmitting
    /\ form.seen.amount > 0
    /\ form.seen.companyName # ""

\* handleSubmit up to its await of createInvoice: an alert and a return when
\* the rendered formData is not valid.
HandleSubmit ==
    /\ canSubmit
    /\ form' = IF validateForm(form.seen) # NULL
               THEN [form EXCEPT !.alert = validateForm(form.seen)]
               ELSE [form EXCEPT !.isSubmitting = TRUE, !.alert = ""]
    /\ UNCHANGED <<wallet, gw, qr, list, w3>>

\* createInvoice succeeds: the form is reset.
SubmitSucceeds ==
    /\ form.isSubmitting
    /\ CanQueue
    /\ form' = [Queued(form, InitialFormData) EXCEPT !.isSubmitting = FALSE]
    /\ UNCHANGED <<wallet, gw, qr, list, w3>>

\* createInvoice fails or throws: an alert, the draft is kept.
SubmitFails ==
    /\ form.isSubmitting
    /\ form' = [form EXCEPT !.isSubmitting = FALSE, !.alert = "Failed to create invoice"]
    /\ UNCHANGED <<wallet, gw, qr, list, w3>>

\* The user closes the alert.
DismissAlert ==
    /\ form.alert # ""
    /\ form' = [form EXCEPT !.alert = ""]
    /\ UNCHANGED <<wallet, gw, qr, list, w3>>

\* ------------------------------------- BlockchainProvider and Web3Service
Web3Frame == UNCHANGED <<ws, ops, listeners, bs, hasProvider, gw, qr, list, form>>

\* BlockchainProvider after its first render and the synchronous part of
\* its effects: Web3Service.initialize has made the provider if
\* window.ethereum is there, and eth_accounts has been asked for.
Mounted ==
    [Unmounted EXCEPT !.pc = IF hasProvider THEN "eth_accounts" ELSE "idle",
                      !.provider = hasProvider,
                      !.error = IF hasProvider THEN NULL
                                ELSE "Failed to initialize Web3 service"]

\* Web3Service.getWalletState, its requests answered: null without provider
\* or signer or when a request throws, else the state of the wallet.
getWalletState(w) ==
    IF ~w.provider \/ ~w.signer \/ extAccount = NoAccount THEN NoWalletState
    ELSE Web3WalletState(extAccount, extChain, EthLedger(extAccount, extChain),
                         IF w.pyusdContract /\ extChain = SEPOLIA
                         THEN PyusdLedger[extAccount] ELSE "0")

\* refreshWalletState once getWalletState has returned.
refreshWalletState(w) ==
    [w EXCEPT !.pc = "idle", !.walletState = getWalletState(w),
              !.error = IF getWalletState(w).isConnected
                           /\ ~getWalletState(w).isCorrectNetwork
                        THEN "Please switch to Sepolia Testnet to use blockchain features"
                        ELSE NULL]

\* checkConnection resumes after eth_accounts: with an account exposed it
\* refreshes the wallet state.
Web3MountCheck ==
    /\ w3.pc = "eth_accounts"
    /\ w3' = IF extAccount # NoAccount THEN refreshWalletState(w3)
             ELSE [w3 EXCEPT !.pc = "idle"]
    /\ UNCHANGED <<extAccount, extChain, notified>>
    /\ Web3Frame

\* The user invokes BlockchainProvider.connectWallet: the loading flag is
\* set and the error cleared; without window.ethereum it fails at once.
Web3ConnectWallet ==
    /\ w3.pc = "idle"
    /\ w3' = IF ~hasProvider
             THEN [w3 EXCEPT !.error =
                      "MetaMask is not installed. Please install MetaMask to continue."]
             ELSE [w3 EXCEPT !.pc = "connectWallet", !.isLoading = TRUE, !.error = NULL]
    /\ UNCHANGED <<extAccount, extChain, notified>>
    /\ Web3Frame

\* BlockchainProvider.connectWallet's catch and finally blocks.
web3ConnectFails(w, message) ==
    [w EXCEPT !.pc = "idle", !.isLoading = FALSE, !.error = message]

\* Web3Service.connectWallet is entered: it throws without a provider, else
\* it sends eth_requestAccounts.
Web3ConnectEnters ==
    /\ w3.pc = "connectWallet"
    /\ w3' = IF ~w3.provider THEN web3ConnectFails(w3, "Web3 not initialized")
             ELSE [w3 EXCEPT !.pc = "eth_requestAccounts"]
    /\ UNCHANGED <<extAccount, extChain, notified>>
    /\ Web3Frame

\* eth_requestAccounts answers o: a rejection throws; else the signer is
\* taken and its address, the network and the balance are asked for.
Web3RequestAccounts ==
    /\ w3.pc = "eth_requestAccounts"
    /\ \E o \in RequestOutcomes :
         /\ extAccount' = AccountAfter(o)
         /\ w3' = CASE o = "reject" -> web3ConnectFails(w3, "User rejected the request.")
                    [] o = "empty" ->
                         [web3ConnectFails(w3, "unknown account #0") EXCEPT !.signer = TRUE]
                    [] OTHER -> [w3 EXCEPT !.pc = "getBalance", !.signer = TRUE]
    /\ UNCHANGED <<extChain, notified>>
    /\ Web3Frame

\* The requests of Web3Service.connectWallet answer: on Sepolia the contracts
\* are made and the token balance read; the handlers are registered and the
\* wallet state is returned to the component, which stores it.
Web3ConnectCompletes ==
    /\ w3.pc = "getBalance"
    /\ w3' = IF extAccount = NoAccount
             THEN web3ConnectFails(w3, "unknown account #0")
             ELSE LET onSepolia == extChain = NETWORKS.sepolia.chainId
                      bound == [w3 EXCEPT !.pyusdContract = @ \/ onSepolia]
                  IN  [bound EXCEPT
                          !.pc = "idle", !.isLoading = FALSE, !.listening = TRUE,
                          !.walletState =
                              Web3WalletState(extAccount, extChain,
                                              EthLedger(extAccount, extChain),
                                              IF onSepolia THEN PyusdLedger[extAccount]
                                              ELSE "0"),
                          !.error = IF onSepolia THEN NULL ELSE
                              "Please switch to Sepolia Testnet to use blockchain features"]
    /\ UNCHANGED <<extAccount, extChain, notified>>
    /\ Web3Frame

\* Web3Service.disconnectWallet: the fields are set to null and the
\* handlers removed.
web3DisconnectWallet(w) ==
    [w EXCEPT !.provider = FALSE, !.signer = FALSE, !.pyusdContract = FALSE,
              !.listening = FALSE]

\* The user invokes BlockchainProvider.disconnectWallet, which awaits the
\* service's.
Web3DisconnectWallet ==
    /\ w3.pc = "idle"
    /\ w3' = [web3DisconnectWallet(w3) EXCEPT !.pc = "disconnectWallet",
                                              !.isLoading = TRUE,
                                              !.disconnected = TRUE]
    /\ UNCHANGED <<extAccount, extChain, notified>>
    /\ Web3Frame

\* disconnectWallet resumes: the wallet state and the error are set to null.
Web3DisconnectDone ==
    /\ w3.pc = "disconnectWallet"
    /\ w3' = [w3 EXCEPT !.pc = "idle", !.isLoading = FALSE,
                        !.walletState = NoWalletState, !.error = NULL]
    /\ UNCHANGED <<extAccount, extChain, notified>>
    /\ Web3Frame

\* refreshWalletState is invoked and getWalletState awaited.
Web3RefreshWalletState ==
    /\ w3.pc = "idle"
    /\ w3' = [w3 EXCEPT !.pc = "getWalletState"]
    /\ UNCHANGED <<extAccount, extChain, notified>>
    /\ Web3Frame

Web3RefreshDone ==
    /\ w3.pc = "getWalletState"
    /\ w3' = refreshWalletState(w3)
    /\ UNCHANGED <<extAccount, extChain, notified>>
    /\ Web3Frame

\* The wallet exposes another first account, or none, and notifies:
\* handleAccountsChanged disconnects the service for an empty list and
\* reloads the page otherwise.
Web3AccountsChanged ==
    /\ hasProvider
    /\ w3.pc # "unmounted"
    /\ Notify
    /\ \E account \in (Accounts \cup {NoAccount}) \ {extAccount} :
         /\ extAccount' = account
         /\ w3' = IF ~w3.listening THEN w3
                  ELSE IF account = NoAccount THEN web3DisconnectWallet(w3)
                  ELSE Mounted
    /\ UNCHANGED extChain
    /\ Web3Frame

\* The wallet moves to another chain and notifies: handleChainChanged
\* reloads the page.
Web3ChainChanged ==
    /\ hasProvider
    /\ w3.pc # "unmounted"
    /\ Notify
    /\ \E chainId \in ChainIds \ {extChain} :
         /\ extChain' = chainId
         /\ w3' = IF w3.listening THEN Mounted ELSE w3
    /\ UNCHANGED extAccount
    /\ Web3Frame

Next ==
    \/ MountCheck
    \/ ConnectWallet
    \/ ConnectAccounts
    \/ ConnectChainId
    \/ ConnectInitialize
    \/ ConnectBalance
    \/ DisconnectWallet
    \/ RefreshBalance
    \/ RefreshBalanceDone
    \/ AccountsChangedEvent
    \/ TimerFire
    \/ ChainChangedEvent
    \/ ReinitDone
    \/ ProviderDisconnect
    \/ SwitchNetworkStart
    \/ SwitchNetworkRefused
    \/ SwitchNetworkApproved
    \/ SwitchNetworkResume
    \/ RefreshAccounts
    \/ RefreshChainId
    \/ RefreshComplete
    \/ SwitchWalletStart
    \/ SwitchWalletUnavailable
    \/ SwitchWalletAccounts
    \/ SwitchWalletChainId
    \/ SwitchWalletBalance
    \/ SwitchWalletProviderInit
    \/ PayInvoice
    \/ PayInvoiceDone

Spec == Init /\ [][Next]_vars

\* ------------------------------------------------ contract gateway runs
\* The gateways are called on a service that is initialized on Sepolia or not
\* initialized at all; the wallet does not move meanwhile.
GatewayInit ==
    /\ ws = InitialWalletState
    /\ notified = 0
    /\ hasProvider = TRUE
    /\ extAccount \in Accounts
    /\ extChain = SEPOLIA
    /\ listeners = [e \in Events |-> {}]
    /\ bs \in {[signer |-> FALSE, contracts |-> NULL, currentNetwork |-> "sepolia"],
               [signer |-> TRUE, contracts |-> "sepolia", currentNetwork |-> "sepolia"]}
    /\ ops = {}
    /\ gw = GatewayIdle
    /\ qr = CodecIdle
    /\ list = ListIdle
    /\ form = FormInitial
    /\ w3 = Unmounted

GatewayNext ==
    \/ BsPayInvoice
    \/ BsPayGotInvoice
    \/ BsPayGotAddress
    \/ BsPayGotBalance
    \/ BsPayGotAllowance
    \/ BsPayApproveSent
    \/ BsPayApproveConfirmed
    \/ BsPaySent
    \/ BsPayConfirmed
    \/ W3PayInvoice
    \/ W3PayGotInvoice
    \/ W3PayGotAddress
    \/ W3PayGotBalance
    \/ W3PayGotAllowance
    \/ W3PayApproveSent
    \/ W3PayApproveConfirmed
    \/ W3PayEstimated
    \/ W3PaySent
    \/ W3PayConfirmed
    \/ BsCreateInvoice
    \/ BsCreateUploaded
    \/ BsCreateSent
    \/ BsCreateConfirmed
    \/ BsGetInvoice
    \/ BsGotInvoice
    \/ W3GetInvoice
    \/ W3GotInvoice
    \/ GetOrganizationInvoices
    \/ GotOrganizationInvoices
    \/ GatewayReturn

SpecGateway == GatewayInit /\ [][GatewayNext]_vars

\* -------------------- the specification of the amount codec and URI builders
\* The builders are stateless singletons: no wallet and no contract is needed.
CodecInit ==
    /\ ws = InitialWalletState
    /\ notified = 0
    /\ hasProvider = FALSE
    /\ extAccount = NoAccount
    /\ extChain = SEPOLIA
    /\ listeners = [e \in Events |-> {}]
    /\ bs = [signer |-> FALSE, contracts |-> NULL, currentNetwork |-> "sepolia"]
    /\ ops = {}
    /\ gw = GatewayIdle
    /\ qr = CodecIdle
    /\ list = ListIdle
    /\ form = FormInitial
    /\ w3 = Unmounted

CodecNext ==
    \/ FormatTokenAmount
    \/ CreateMetaMaskDeepLink
    \/ GeneratePYUSDPaymentQR
    \/ EncodeTransferFunction
    \/ GeneratePaymentQR
    \/ GenerateMetaMaskMobileQR
    \/ GenerateStructuredPaymentQR
    \/ GenerateGenericPaymentQR
    \/ QRCodeDrawn
    \/ QRCodeFailed
    \/ CodecReturn

SpecCodec == CodecInit /\ [][CodecNext]_vars

\* --------------------------------- the specification of the invoice views
\* Wallet states the views are rendered in, each a state the wallet reaches:
\* as mounted without a provider; connected on Sepolia by connectWallet;
\* connected on Ethereum mainnet by switchWallet.
WalletSnapshots ==
    { [ws |-> InitialWalletState,
       bs |-> [signer |-> FALSE, contracts |-> NULL, currentNetwork |-> "sepolia"],
       listeners |-> [e \in Events |-> {}],
       hasProvider |-> FALSE, extAccount |-> NoAccount, extChain |-> SEPOLIA],
      [ws |-> ConnectedState("0xA1", PyusdLedger["0xA1"], SEPOLIA),
       bs |-> [signer |-> TRUE, contracts |-> "sepolia", currentNetwork |-> "sepolia"],
       listeners |-> [e \in Events |-> {ContextHandler(NULL)}],
       hasProvider |-> TRUE, extAccount |-> "0xA1", extChain |-> SEPOLIA],
      [ws |-> ConnectedState("0xA1", "0", MAINNET),
       bs |-> [signer |-> TRUE, contracts |-> NULL, currentNetwork |-> "ethereum"],
       listeners |-> [e \in Events |->
                         IF e \in {"accountsChanged", "chainChanged"}
                         THEN {DetectionHandler} ELSE {}],
       hasProvider |-> TRUE, extAccount |-> "0xA1", extChain |-> MAINNET] }

ViewsInit ==
    /\ \E s \in WalletSnapshots :
         /\ ws = s.ws
         /\ bs = s.bs
         /\ listeners = s.listeners
         /\ hasProvider = s.hasProvider
         /\ extAccount = s.extAccount
         /\ extChain = s.extChain
    /\ notified = 0
    /\ ops = {}
    /\ gw = GatewayIdle
    /\ qr = CodecIdle
    /\ list = ListIdle
    /\ form = FormInitial
    /\ w3 = Unmounted

ViewsNext ==
    \/ HandleGenerateQR
    \/ BuilderDraws
    \/ BuilderDrawFails
    \/ MobileReturns
    \/ EipReturns
    \/ StructuredReturns
    \/ GenerateQRCode
    \/ CardDraws
    \/ CardDrawFails
    \/ ViewDismiss

SpecViews == ViewsInit /\ [][ViewsNext]_vars

\* ---------------------------------- the specification of the invoice form
\* The form is mounted in any of the wallet states of the views.
FormNext ==
    \/ UpdateFormField
    \/ UpdateItem
    \/ AddItem
    \/ RemoveItem
    \/ Render
    \/ HandleSubmit
    \/ SubmitSucceeds
    \/ SubmitFails
    \/ DismissAlert

SpecForm == ViewsInit /\ [][FormNext]_vars

\* --------------------------- the specification of BlockchainProvider's wallet
Web3Init ==
    /\ ws = InitialWalletState
    /\ notified = 0
    /\ hasProvider \in BOOLEAN
    /\ extAccount \in (IF hasProvider THEN Accounts \cup {NoAccount} ELSE {NoAccount})
    /\ extChain \in (IF hasProvider THEN ChainIds ELSE {SEPOLIA})
    /\ listeners = [e \in Events |-> {}]
    /\ bs = [signer |-> FALSE, contracts |-> NULL, currentNetwork |-> "sepolia"]
    /\ ops = {}
    /\ gw = GatewayIdle
    /\ qr = CodecIdle
    /\ list = ListIdle
    /\ form = FormInitial
    /\ w3 = Mounted

Web3Next ==
    \/ Web3MountCheck
    \/ Web3ConnectWallet
    \/ Web3ConnectEnters
    \/ Web3RequestAccounts
    \/ Web3ConnectCompletes
    \/ Web3DisconnectWallet
    \/ Web3DisconnectDone
    \/ Web3RefreshWalletState
    \/ Web3RefreshDone
    \/ Web3AccountsChanged
    \/ Web3ChainChanged

SpecWeb3 == Web3Init /\ [][Web3Next]_vars

\* A promise that is settled runs its continuation: the steps that resume
\* an await are taken when they can be.  What the user and the wallet do is
\* left open.
Web3Fairness ==
    /\ WF_vars(Web3MountCheck)
    /\ WF_vars(Web3ConnectEnters)
    /\ WF_vars(Web3RequestAccounts)
    /\ WF_vars(Web3ConnectCompletes)
    /\ WF_vars(Web3DisconnectDone)
    /\ WF_vars(Web3RefreshDone)

SpecWeb3Fair == SpecWeb3 /\ Web3Fairness

\* ------------------------------------------------------------ properties
Cleared(w) ==
    /\ ~w.isConnected
    /\ w.address = NULL
    /\ w.chainId = NoChain
    /\ w.balance = "0"

NoHandlers(L) == \A e \in Events : L[e] = {}

\* C1: in every reachable wallet state, isConnected implies a non-null
\* address, whatever the interleaving of operations, completions and
\* notifications.
C1_ConnectedHasAddress == ws.isConnected => ws.address # NULL

\* An account switch has just been handled in a connected state.
C1_Witness ==
    /\ ws.isConnected
    /\ ws.address = extAccount
    /\ ws.balance = "0"
    /\ At("timer", "timeout") # {}

\* C3: disconnectWallet, invoked in any state, ends in the cleared Disconnected
\* state and leaves no accountsChanged, chainChanged, connect or disconnect
\* handler on the provider.
C3_DisconnectClearsAll ==
    [][DisconnectWallet => ws' = DisconnectedState /\ NoHandlers(listeners')]_vars

\* A wallet whose contracts were bound and whose provider never notified is
\* disconnected, with no handler left, while a connect is still in flight.
C3_Witness ==
    /\ ws = DisconnectedState
    /\ NoHandlers(listeners)
    /\ bs.contracts # NULL
    /\ notified = 0
    /\ At("connect", "chainId") # {}

Core(w) == <<w.isConnected, w.address, w.chainId, w.network, w.balance>>

\* C2: from any Connected state, an accountsChanged notification with an
\* empty account list moves the displayed wallet state to the cleared
\* Disconnected state.
C2_EmptyAccountsDisconnects ==
    [][AccountsChanged(NoAccount) /\ ws.isConnected => Cleared(ws')]_vars

\* C4: the refetch that follows an accountsChanged notification asks for the
\* balance of the address the wallet state now holds.
C4_RefetchIsForNewAddress ==
    [][TimerFire /\ ws.address # NULL =>
         \E op \in ops' \ ops : op.kind = "refreshBalance" /\ op.cap = ws.address]_vars

\* C5: a payInvoice entered once the wallet state shows the chain the wallet
\* moved to runs against the contract binding of that chain.
C5_PayInvoiceUsesNewBinding ==
    [][PayInvoice /\ notified > 0 /\ ws.chainId = extChain =>
         \A op \in ops' \ ops : NETWORKS[op.arg].chainId = ws.chainId]_vars

\* C6: the result of a balance fetch issued under chain id c is written only
\* if the wallet state's chain id is still c.
C6_StaleChainResultDiscarded ==
    [][\A op \in ops :
         BalanceFetched(op) /\ op.chain # NoChain /\ ws.chainId # NoChain
             => op.chain = ws.chainId]_vars

\* C8: a connect whose account request is granted goes on to Connected,
\* whatever the chain: it is not abandoned because the chain has no descriptor
\* or no deployed contract.
C8_ConnectSurvivesUnsupportedChain ==
    [][\A op \in ops : ConnectInitializeWith(op, "ok") => ops' # ops \ {op}]_vars

\* A connect attempt fails: no provider, the request throws, or no account.
ConnectFailure ==
    \/ ~hasProvider /\ ConnectWallet
    \/ \E op \in ops : \E o \in {"reject", "empty"} : ConnectAccountsWith(op, o)

\* C9 as stated: a failed connect ends with isConnected false, an error and
\* isLoading false.
C9_FailedConnectEndsDisconnected ==
    [][ConnectFailure => ~ws'.isConnected /\ ws'.error # NULL /\ ~ws'.isLoading]_vars

\* C9: a failed connect ends with an error and isLoading false and leaves
\* isConnected, address, chainId, network and balance as they were; without a
\* provider it fails at once and issues no request.
C9_FailedConnectKeepsState ==
    [][ConnectFailure =>
         /\ ws'.error # NULL
         /\ ~ws'.isLoading
         /\ Core(ws') = Core(ws)
         /\ ~hasProvider => ops' = ops]_vars

\* A rejected connect has left its error next to a connection another connect
\* made.
C9_Witness ==
    /\ ws.isConnected
    /\ ws.error = "User rejected the request."
    /\ ~ws.isLoading

\* C10: a switchWallet that fails (WalletConnect is listed and not
\* implemented, so switching to it always fails) leaves isConnected, address,
\* chainId, network and balance as they were before it started.
C10_FailedSwitchWalletRollsBack ==
    [][SwitchWallet("walletconnect") => Core(ws') = Core(ws)]_vars

\* ---------------------------------------------- properties of the gateways
InTrace(name) == \E i \in DOMAIN gw.trace : gw.trace[i] = name

\* Position of the first occurrence of name in the trace, 0 when absent.
FirstAt(name) ==
    IF InTrace(name) THEN CHOOSE i \in DOMAIN gw.trace :
                               /\ gw.trace[i] = name
                               /\ \A j \in 1..(i - 1) : gw.trace[j] # name
    ELSE 0

Paying == gw.op = "payInvoice"

\* C11 as stated: payInvoice reports an insufficient balance with zero
\* external calls issued.
C11_InsufficientBalanceWithoutCalls ==
    Paying /\ gw.result = "Insufficient PYUSD balance" => gw.trace = <<>>

\* C11: with a balance below the invoice amount payInvoice sends neither
\* approve nor payInvoice, only reads (getInvoice, getAddress, balanceOf), and
\* once the balance has been read it returns the insufficient-balance error.
C11_InsufficientBalanceSendsNothing ==
    Paying /\ gw.balance < gw.onChain.amount =>
        /\ ~InTrace("approve")
        /\ ~InTrace("payInvoice")
        /\ ~InTrace("allowance")
        /\ gw.pc = "done" /\ InTrace("balanceOf") /\ gw.result # CallError
               => gw.result = "Insufficient PYUSD balance"

\* A payment of an unpaid invoice by someone else than its creator has ended
\* on the balance check.
C11_Witness ==
    /\ Paying
    /\ gw.pc = "done"
    /\ gw.balance < gw.invoice.amount
    /\ gw.invoice.creator # gw.caller
    /\ gw.trace = <<"getInvoice", "getAddress", "balanceOf">>
    /\ gw.result = "Insufficient PYUSD balance"

\* C12: a payInvoice by the invoice's creator sends no transaction, through
\* either gateway.
C12_CreatorCannotPay ==
    Paying /\ gw.onChain.exists /\ gw.caller = gw.onChain.creator =>
        ~InTrace("approve") /\ ~InTrace("payInvoice")

\* C13: payInvoice sends approve or payInvoice only for an invoice that
\* exists and is unpaid.
C13_TransactionsOnlyForUnpaid ==
    Paying /\ (InTrace("approve") \/ InTrace("payInvoice")) =>
        gw.onChain.exists /\ gw.onChain.status = UNPAID

\* The allowance has been read and payInvoice has gone on from there.
PastAllowance == InTrace("allowance") /\ Len(gw.trace) > FirstAt("allowance")

\* C14: once payInvoice is past the allowance check, approve has been sent
\* exactly when allowance < amount, and then the payInvoice transaction is
\* sent only after the approval's confirmation: never before it, and never
\* when the approval was rejected or failed.
C14_ApprovalBeforePayment ==
    Paying =>
        /\ PastAllowance => (InTrace("approve") <=> gw.allowance < gw.invoice.amount)
        /\ InTrace("approve") => FirstAt("approve") = FirstAt("allowance") + 1
        /\ InTrace("approve") /\ InTrace("payInvoice") =>
               /\ InTrace("approveConfirmed")
               /\ FirstAt("approve") < FirstAt("approveConfirmed")
               /\ FirstAt("approveConfirmed") < FirstAt("payInvoice")
        /\ InTrace("approve") /\ ~InTrace("approveConfirmed") => ~InTrace("payInvoice")

\* A payment that needed an approval has gone through.
C14_Witness ==
    /\ Paying
    /\ gw.allowance < gw.invoice.amount
    /\ gw.result = "success"
    /\ gw.trace = <<"getInvoice", "getAddress", "balanceOf", "allowance",
                    "approve", "approveConfirmed", "payInvoice">>

\* C15: the contract's createInvoice is called only with the hash of a draft
\* that was stored in the metadata store.
C15_ContractCallOnlyAfterStoredUpload ==
    gw.op = "createInvoice" /\ InTrace("createInvoice") => gw.stored

\* C16: getInvoice returns null for an id the contract has no invoice for,
\* and listing returns [] when there is none or the read fails.
C16_NullForMissingInvoice ==
    /\ gw.op = "getInvoice" /\ gw.pc = "done" /\ ~gw.onChain.exists => gw.result = "null"
    /\ gw.op = "getOrganizationInvoices" /\ gw.pc = "done" /\ gw.count = 0
           => gw.result = "[]"

Built(fn) == qr.fn = fn /\ qr.pc = "done"

\* C17: for a non-negative decimal of at most six fractional digits, both
\* conversions to base units give exactly the amount times 10^6.
C17_ConversionIsExact ==
    /\ Built("formatTokenAmount") => qr.units = qr.amount.value
    /\ Built("generatePYUSDPaymentQR") /\ qr.success /\ qr.amount.text = "decimal"
           => qr.units = qr.amount.value

\* The inputs pass the builder's tests and the QR image could be drawn.
ValidInputs == isAddress(qr.to) /\ ~InvalidAmount(qr.amount) /\ qr.error # DrawError

\* C18: for valid inputs the token-transfer builder's URI is
\* ethereum:<token>@<chainId>/transfer?address=<recipient>&uint256=<amount>
\* and nothing else.
C18_ExactTransferUri ==
    (Built("generatePYUSDPaymentQR") \/ Built("createMetaMaskDeepLink")) /\ ValidInputs
        => /\ qr.success
           /\ qr.uri.scheme = "ethereum:" /\ qr.uri.target = "0xCaC5"
           /\ qr.uri.chainId = SEPOLIA /\ qr.uri.path = "/transfer"
           /\ qr.uri.address = qr.to
           /\ qr.uri.extra = <<>>

\* C18, amended: for valid inputs generatePYUSDPaymentQR's URI is that
\* string with uint256 the digits of Math.floor(parseFloat(amount) * 1e6),
\* followed by &gas=100000; createMetaMaskDeepLink's is that string alone,
\* with the amount as it was passed.
C18_TransferUriThenGas ==
    /\ Built("generatePYUSDPaymentQR") /\ ValidInputs
        => /\ qr.success
           /\ qr.uri = [scheme |-> "ethereum:", target |-> "0xCaC5", chainId |-> SEPOLIA,
                        path |-> "/transfer", address |-> qr.to,
                        uint256 |-> AmountText("integer", FALSE, qr.units),
                        extra |-> <<"gas=100000">>]
    /\ Built("createMetaMaskDeepLink") /\ ValidInputs
        => /\ qr.success
           /\ qr.uri = [scheme |-> "ethereum:", target |-> "0xCaC5", chainId |-> SEPOLIA,
                        path |-> "/transfer", address |-> qr.to,
                        uint256 |-> qr.amount, extra |-> <<>>]

C18_Witness ==
    /\ Built("generatePYUSDPaymentQR") /\ qr.success /\ qr.image
    /\ qr.amount = AmountText("decimal", FALSE, 100500000)
    /\ qr.to = AddressText(40, TRUE, "good")

\* C19: for a valid recipient and a positive decimal amount,
\* generatePYUSDPaymentQR succeeds with a URI that starts with ethereum:,
\* names chain 11155111 and /transfer, carries the recipient unchanged and
\* the amount in base units.
C19_QRForValidInputs ==
    /\ Built("generatePYUSDPaymentQR") /\ isAddress(qr.to) /\ qr.error # DrawError
    /\ qr.amount.text = "decimal" /\ ~qr.amount.neg /\ qr.amount.value > 0
    => /\ qr.success
       /\ qr.uri.scheme = "ethereum:" /\ qr.uri.chainId = 11155111
       /\ qr.uri.path = "/transfer" /\ qr.uri.address = qr.to
       /\ qr.uri.uint256 = AmountText("integer", FALSE, qr.amount.value)

\* C20: generatePYUSDPaymentQR fails, with no URI and no image, when the
\* address is not valid or the amount is missing, not a number, zero or
\* negative.
C20_InvalidInputsRejected ==
    /\ Built("generatePYUSDPaymentQR")
    /\ \/ ~isAddress(qr.to)
       \/ qr.amount.text # "decimal"
       \/ qr.amount.neg
       \/ qr.amount.value = 0
    => ~qr.success /\ qr.uri = NoUri /\ ~qr.image

\* The builders that test none of their inputs.
OtherBuilders ==
    {"generateMetaMaskMobileQR", "generateStructuredPaymentQR",
     "generateGenericPaymentQR", "generatePaymentQR"}

\* The recipient is malformed, or the amount is not a positive decimal.
BadInputs ==
    \/ ~isAddress(qr.to)
    \/ qr.amount.text # "decimal"
    \/ qr.amount.neg
    \/ qr.amount.value = 0

\* C21: the mobile, structured, generic and legacy builders fail, and return
\* neither URI nor payload nor image, when the recipient is malformed or the
\* amount is not a positive number.
C21_EveryBuilderRejectsBadInputs ==
    qr.fn \in OtherBuilders /\ qr.pc = "done" /\ BadInputs
        => ~qr.success /\ qr.uri = NoUri /\ qr.link = NoLink /\ ~qr.image

\* The binary digits a sequence of hexadecimal digits spells.
HexBits(d) == [i \in 1..(4 * Len(d)) |-> (d[(i + 3) \div 4] \div 2^(3 - ((i - 1) % 4))) % 2]

\* C22: for a valid address and a non-negative integer amount the call data
\* is the transfer selector, the address left-padded with zeros to 64
\* characters and the amount in 64 hexadecimal characters, and the two words
\* decode to the address and the amount put in.
C22_CalldataDecodesToInputs ==
    Built("encodeTransferFunction") /\ isAddress(qr.to)
        => /\ qr.link.data.selector = "a9059cbb"
           /\ qr.link.data.addressPad + qr.link.data.address.digits = 64
           /\ qr.link.data.address = qr.to
           /\ ~qr.link.data.amount.nan /\ ~qr.link.data.amount.neg
           /\ qr.link.data.amountPad + Len(qr.link.data.amount.digits) = 64
           /\ Trim(HexBits(qr.link.data.amount.digits)) = qr.wei.bits

\* The order of builders the fallback policy is said to follow.
PolicyOrder ==
    <<"generatePYUSDPaymentQR", "generateMetaMaskMobileQR", "generateGenericPaymentQR">>

\* Every builder that has returned so far has failed.
AllFailed == \A i \in 1..Len(list.errors) : list.errors[i] # "none"

\* C23: the invoice list's QR handler calls the token-transfer builder, then
\* the mobile deep-link builder, then the generic builder, never the
\* structured one, and the QR it shows is that of the first builder that
\* succeeded, after which no builder is called.
C23_FallbackOrder ==
    list.by = "handleGenerateQR"
        => /\ Len(list.tried) <= Len(PolicyOrder)
           /\ \A i \in 1..Len(list.tried) : list.tried[i] = PolicyOrder[i]
           /\ \A i \in 1..(Len(list.errors) - 1) : list.errors[i] # "none"
           /\ list.modal => /\ list.qrResult.fn = list.tried[Len(list.tried)]
                            /\ Len(list.errors) = Len(list.tried)

\* C24: when every builder the invoice list's QR handler called has failed,
\* no QR is shown and the toast carries the error of the last builder called.
C24_LastErrorSurfaced ==
    list.by = "handleGenerateQR" /\ list.pc = "done" /\ AllFailed
        => /\ ~list.modal
           /\ list.toast.detail = list.errors[Len(list.errors)]

\* The amount in base units that a builder's result carries: the second
\* word of the call data, the uint256 parameter, or the payload's value.
EncodedUnits(q) ==
    CASE q.fn = "generateMetaMaskMobileQR" ->
             LET b == Trim(HexBits(q.link.data.amount.digits))
             IN  Natural(b, 1, Len(b))
      [] q.fn = "generatePYUSDPaymentQR" -> q.uri.uint256.value
      [] OTHER -> floor(q.link.value)

\* C27: the QR the invoice list shows for an invoice carries the amount the
\* contract holds for it, in base units.
C27_EncodedAmountIsOnChainAmount ==
    list.by = "handleGenerateQR" /\ list.modal
        => EncodedUnits(list.qrResult) = list.units

\* C26: what the card's QR handler ends with for an invoice (the image and
\* its link, or an alert) is what it ends with for that invoice under any
\* other wallet state.
C26_QRIndependentOfWallet ==
    list.by = "generateQRCode" /\ list.pc = "done"
        => \A s \in WalletSnapshots :
              LET other == generateQRCode(s.ws, s.bs, list.units, list.creator)
              IN  IF list.modal
                  THEN other.pc = "card" /\ other.paymentLink = list.paymentLink
                  ELSE IF list.alert = "Failed to generate QR code"
                  THEN other.pc = "card"
                  ELSE other.pc = "done" /\ other.alert = list.alert

\* The sum over the lines of a draft of quantity times rate.
RECURSIVE QuantityTimesRateFrom(_, _)
QuantityTimesRateFrom(items, i) ==
    IF i > Len(items) THEN 0
    ELSE items[i].quantity * items[i].rate + QuantityTimesRateFrom(items, i + 1)

\* C25: in the form's state and in the formData it last rendered, after any
\* mutations of the draft, the total amount is the sum over the line items of
\* quantity times rate.
C25_TotalIsSumOfLines ==
    /\ form.data.amount = QuantityTimesRateFrom(form.data.items, 1)
    /\ form.seen.amount = QuantityTimesRateFrom(form.seen.items, 1)

\* Two lines with amounts have been entered and a line has then been
\* removed, the removal not yet rendered.
C25_Witness ==
    /\ Len(form.seen.items) = 2
    /\ form.seen.items[1].amount > 0 /\ form.seen.items[2].amount > 0
    /\ Len(form.data.items) = 1
    /\ form.data.amount > 0

\* No switchWallet, which connects anew, is under way.
NoSwitchUnderWay == \A op \in ops : op.kind # "switchWallet"

\* C28: from the state disconnectWallet wrote, and until a connect is started
\* anew, no step writes a connected flag, an address, a chain id, a network
\* or a balance: operations begun before the disconnect complete without
\* effect on them.
C28_DisconnectedStaysDisconnected ==
    [][ws = DisconnectedState /\ NoSwitchUnderWay
           => Core(ws') = Core(DisconnectedState)]_vars

\* C29: while the wallet state is connected, the provider holds an
\* accountsChanged handler and a chainChanged handler of the wallet context,
\* the handlers that update the wallet state.
C29_ConnectedHasContextHandlers ==
    ws.isConnected
        => /\ ContextHandlersOn("accountsChanged") # {}
           /\ ContextHandlersOn("chainChanged") # {}

\* connectWallet has been invoked after a disconnectWallet, window.ethereum
\* is there and the wallet is on Sepolia.
ReconnectIssued ==
    /\ w3.pc = "connectWallet"
    /\ w3.disconnected
    /\ hasProvider
    /\ extChain = NETWORKS.sepolia.chainId

\* The wallet did not hand out an account.
NoAccountGiven == w3.error \in {"User rejected the request.", "unknown account #0"}

\* C30: a connectWallet invoked after disconnectWallet, with window.ethereum
\* there and the wallet on Sepolia, leads to the connected wallet state
\* unless the wallet hands out no account.
C30_ReconnectAfterDisconnect ==
    ReconnectIssued ~> (w3.walletState.isConnected \/ NoAccountGiven)

====
